---------------------------- MODULE Spec2Model ----------------------------
(***************************************************************************)
(* A model of the laser geometry engine of Taisei: src/lasers/laser.c,     *)
(* src/lasers/rules.c and the primitives of src/util/geometry.c it uses.   *)
(*                                                                         *)
(* Number representation.  The C code computes in float/double.  The model *)
(* computes exactly:                                                       *)
(*   - curve times are integers counted in units of 1/TimeScale (the       *)
(*     sampling step 0.5 is one unit);                                      *)
(*   - positions are pairs of integers counted in units of 1/PosScale px;  *)
(*   - widths, margins, bounding boxes and distances are rationals <<n,d>> *)
(*     in px, d > 0, in lowest terms.                                       *)
(* Rounding of the floating-point operations is modelled where a claim is  *)
(* about it: calc_sample_width also in single precision, and               *)
(* ucapsule_dist_from_point also in double precision.  NaN and infinity    *)
(* are modelled where the code can produce them.                           *)
(***************************************************************************)
EXTENDS Integers, Sequences, FiniteSets, TLC

VARIABLES
    frames,         \* global.frames
    lasers,         \* global.lasers: the registry, in list order
    segments,       \* lintern.segments: the shared segment buffer
    pc,             \* position inside process_lasers: "idle", "pass1", "pass2"
    cur,            \* the loop variable `laser` of process_lasers (an index)
    stage_cleared,  \* the local of process_lasers
    plr,            \* global.plr: pos (1/PosScale px) and velocity
    ev,             \* the last call process_lasers made, with what it saw
    resets,         \* how often the segment buffer was emptied in this frame
    nextid,         \* identity of the next laser object
    tr,             \* the LaserTraceState of a running laser_trace
    ch,             \* the laser driven by the laser_charge task
    rl,             \* a motion rule evaluation and its inputs
    co,             \* a laser_collision call and its inputs
    ws,             \* a calc_sample_width call and its inputs
    uc,             \* a ucapsule_dist_from_point call and its inputs
    sm              \* the sampling of the last quantize_laser call of a single laser

vars == <<frames, lasers, segments, pc, cur, stage_cleared, plr, ev, resets,
          nextid, tr, ch, rl, co, ws, uc, sm>>

---------------------------------------------------------------------------
(* Exact arithmetic *)

Abs(x) == IF x < 0 THEN -x ELSE x
Min(a, b) == IF a < b THEN a ELSE b
Max(a, b) == IF a > b THEN a ELSE b
Sign(x) == IF x < 0 THEN -1 ELSE IF x > 0 THEN 1 ELSE 0

\* F(e), with e evaluated once
With(e, F(_)) == CHOOSE y \in {F(x) : x \in {e}} : TRUE

RECURSIVE GCD(_, _)
GCD(a, b) == IF b = 0 THEN a ELSE GCD(b, a % b)

\* ceil(a / b) and floor(a / b) for b > 0
CeilDiv(a, b) == -((-a) \div b)
FloorDiv(a, b) == a \div b

\* rationals <<n, d>> in lowest terms with d > 0 (d = 0: a division by zero).
\* The operators bind their arguments once, CHOOSE r \in {F(x) : x \in {e}}
\* being F(e) with e evaluated a single time.
RNorm(p, g) ==
    IF p[1] = 0 THEN <<0, 1>>
    ELSE IF p[2] < 0 THEN <<(-p[1]) \div g, (-p[2]) \div g>>
    ELSE <<p[1] \div g, p[2] \div g>>
RQ(n, d) == CHOOSE r \in {RNorm(p, GCD(Abs(p[1]), Abs(p[2]))) : p \in {<<n, d>>}} : TRUE
RI(n) == <<n, 1>>
RAdd(a, b) ==
    CHOOSE r \in {RQ(x[1] * y[2] + y[1] * x[2], x[2] * y[2]) : x \in {a}, y \in {b}} : TRUE
RSub(a, b) ==
    CHOOSE r \in {RQ(x[1] * y[2] - y[1] * x[2], x[2] * y[2]) : x \in {a}, y \in {b}} : TRUE
RMul(a, b) == CHOOSE r \in {RQ(x[1] * y[1], x[2] * y[2]) : x \in {a}, y \in {b}} : TRUE
RDiv(a, b) == CHOOSE r \in {RQ(x[1] * y[2], x[2] * y[1]) : x \in {a}, y \in {b}} : TRUE
RNeg(a) == CHOOSE r \in {<<-x[1], x[2]>> : x \in {a}} : TRUE
RLt(a, b) == \E x \in {a}, y \in {b} : x[1] * y[2] < y[1] * x[2]
RLe(a, b) == \E x \in {a}, y \in {b} : x[1] * y[2] <= y[1] * x[2]
RMin(a, b) == CHOOSE r \in {IF RLt(x, y) THEN x ELSE y : x \in {a}, y \in {b}} : TRUE
RMax(a, b) == CHOOSE r \in {IF RLt(y, x) THEN x ELSE y : x \in {a}, y \in {b}} : TRUE
RAbs(a) == CHOOSE r \in {<<Abs(x[1]), x[2]>> : x \in {a}} : TRUE
RFloor(a) == a[1] \div a[2]

\* sqrt(A) * u < w, for rationals A >= 0, u, w
SqrtMulLt(A, u, w) ==
    \E x \in {u}, y \in {w} :
        \E l2 \in {RMul(A, RMul(x, x))}, w2 \in {RMul(y, y)} :
            IF x[1] >= 0
            THEN y[1] > 0 /\ RLt(l2, w2)
            ELSE y[1] > 0 \/ RLt(w2, l2)

\* the integer square root of a perfect square
ISqrt(n) == With(n, LAMBDA m : CHOOSE r \in 0..m : r * r = m)

\* 2-vectors of integers
VAdd(a, b) == <<a[1] + b[1], a[2] + b[2]>>
VSub(a, b) == <<a[1] - b[1], a[2] - b[2]>>
VScale(k, a) == <<k * a[1], k * a[2]>>
\* cdot / cdotf, ccross, cabs2 / cabs2f
cdot(a, b) == a[1] * b[1] + a[2] * b[2]
ccross(a, b) == a[1] * b[2] - a[2] * b[1]
cabs2(a) == a[1] * a[1] + a[2] * a[2]

---------------------------------------------------------------------------
(* Units and constants *)

\* curve-time units per unit of time: 1 / step, step = 0.5f
TimeScale == 2
\* position units per px
PosScale == 2
\* a position coordinate as a rational number of px
PosR(x) == RQ(x, PosScale)

VIEWPORT_W == 480
VIEWPORT_H == 560
LASER_SDF_RANGE == 4
CLEAR_STEP == 16

CLEAR_HAZARDS_LASERS == "CLEAR_HAZARDS_LASERS"
CLEAR_HAZARDS_FORCE == "CLEAR_HAZARDS_FORCE"
CLEAR_HAZARDS_BULLETS == "CLEAR_HAZARDS_BULLETS"

NULL == "NULL"
NaN == "NaN"

---------------------------------------------------------------------------
(* Motion rules: src/lasers/rules.c *)

\* sin and cos at whole numbers of quarter turns
SinQ(k) == LET r == k % 4 IN IF r = 1 THEN 1 ELSE IF r = 3 THEN -1 ELSE 0
CosQ(k) == SinQ(k + 1)
\* cdir(angle) for an angle of k quarter turns
cdirQ(k) == <<CosQ(k), SinQ(k)>>

\* t is a curve time in 1/TimeScale units; the result is in 1/PosScale px.
\* (PosScale \div TimeScale) * t * v is t * v px.
laser_rule_linear_impl(l, t, rd) ==
    VAdd(l.pos, VScale((PosScale \div TimeScale) * t, rd.velocity))

\* l->pos + t * (velocity + t * half_accel); rd.half_accel is chosen so that
\* the division is exact
laser_rule_accelerated_impl(l, t, rd) ==
    VAdd(l.pos, VAdd(VScale((PosScale \div TimeScale) * t, rd.velocity),
                     <<(PosScale * t * t * rd.half_accel[1]) \div (TimeScale * TimeScale),
                       (PosScale * t * t * rd.half_accel[2]) \div (TimeScale * TimeScale)>>))

\* complex multiplication of integer pairs
cmul(a, b) == <<a[1] * b[1] - a[2] * b[2], a[1] * b[2] + a[2] * b[1]>>

\* cabs and carg of an axis-parallel vector (carg in quarter turns)
cabsAxis(v) == Abs(v[1]) + Abs(v[2])
cargAxis(v) ==
    IF v[2] = 0 THEN (IF v[1] >= 0 THEN 0 ELSE 2)
    ELSE (IF v[2] > 0 THEN 1 ELSE 3)

\* rd.velocity is axis-parallel; rd.frequency is in quarter turns per curve-time
\* unit, rd.phase in quarter turns; rd.amplitude is a complex number of px.
laser_rule_sine_impl(l, t, rd) ==
    LET line_vel == rd.velocity
        len == cabsAxis(line_vel)
        line_dir == <<line_vel[1] \div len, line_vel[2] \div len>>
        line_normal == <<line_dir[2], -line_dir[1]>>
        sine_ofs == VScale(SinQ(rd.frequency * t + rd.phase),
                           cmul(line_normal, rd.amplitude))
    IN  VAdd(l.pos, VAdd(VScale((PosScale \div TimeScale) * t, line_vel),
                         VScale(PosScale, sine_ofs)))

\* rd.amplitude is in quarter turns
laser_rule_sine_expanding_impl(l, t, rd) ==
    LET angle == cargAxis(rd.velocity)
        speed == cabsAxis(rd.velocity)
        s == rd.frequency * t + rd.phase
    IN  VAdd(l.pos, VScale((PosScale \div TimeScale) * t * speed,
                           cdirQ(angle + rd.amplitude * SinQ(s))))

\* rd.turn_speed is in quarter turns per curve-time unit, rd.time_ofs in
\* curve-time units; rd.radius is a complex number of px.
laser_rule_arc_impl(l, t, rd) ==
    VAdd(l.pos, VScale(PosScale, cmul(rd.radius, cdirQ(rd.turn_speed * (t + rd.time_ofs)))))

EVENT_BIRTH == -8998

\* ringbuf_peek_ptr(&history, k): the k-th newest element; history[1] is the
\* element pushed last.
ringbuf_peek(history, k) == history[k + 1]
\* ringbuf_push on a buffer of capacity cap
ringbuf_push(history, cap, v) == SubSeq(<<v>> \o history, 1, Min(cap, Len(history) + 1))

\* rd.history holds positions in 1/PosScale px
laser_rule_dynamic_impl(l, t, rd) ==
    IF t = EVENT_BIRTH THEN <<0, 0>>
    ELSE
    LET n == Len(rd.history)
        tbase == TimeScale * ((frames - l.birthtime) * l.speed)
        tofsraw == t - tbase
        lo == TimeScale * (1 - n)
        tofs == IF tofsraw < lo THEN lo ELSE IF tofsraw > 0 THEN 0 ELSE tofsraw
        i0 == FloorDiv(tofs, TimeScale)
        i1 == CeilDiv(tofs, TimeScale)
        ifract == tofs - TimeScale * i0      \* in 1/TimeScale
        v0 == ringbuf_peek(rd.history, -i0)
        v1 == ringbuf_peek(rd.history, -i1)
        d == VSub(v1, v0)
    IN  \* clerp(v0, v1, ifract)
        VAdd(v0, <<(d[1] * ifract) \div TimeScale, (d[2] * ifract) \div TimeScale>>)

\* laser_pos_at: the dispatch over the rule's tag
laser_pos_at(l, t) ==
    CASE l.rule.tag = "linear" -> laser_rule_linear_impl(l, t, l.rule)
      [] l.rule.tag = "accelerated" -> laser_rule_accelerated_impl(l, t, l.rule)
      [] l.rule.tag = "sine" -> laser_rule_sine_impl(l, t, l.rule)
      [] l.rule.tag = "sine_expanding" -> laser_rule_sine_expanding_impl(l, t, l.rule)
      [] l.rule.tag = "arc" -> laser_rule_arc_impl(l, t, l.rule)
      [] l.rule.tag = "dynamic" -> laser_rule_dynamic_impl(l, t, l.rule)

---------------------------------------------------------------------------
(* Lasers: src/lasers/laser.c *)

ZeroBBox == [top_left |-> <<RI(0), RI(0)>>, bottom_right |-> <<RI(0), RI(0)>>]

\* create_laser.  qframe and ghist are not fields of the C struct: they record
\* the frame of the last quantize_laser call on the object (-1: never) and the
\* frames in which laser_collision called player_graze for it.
create_laser(id, pos, time, deathtime, rule) ==
    [id |-> id, birthtime |-> frames, timespan |-> time, deathtime |-> deathtime,
     pos |-> pos, rule |-> rule, width |-> RI(10), speed |-> 1, timeshift |-> 0,
     collision_active |-> TRUE, unclearable |-> FALSE, clear_flags |-> {},
     next_graze |-> 0, bbox |-> ZeroBBox, segments_ofs |-> 0, num_segments |-> 0,
     qframe |-> -1, ghist |-> <<>>]

\* laserline_set_ab; a and b in 1/PosScale px, chosen so that the velocity is a
\* whole number of px per unit of time
laserline_set_ab(l, a, b) ==
    [l EXCEPT !.rule = [tag |-> "linear",
                        velocity |-> <<(b[1] - a[1]) \div (PosScale * l.timespan),
                                       (b[2] - a[2]) \div (PosScale * l.timespan)>>],
              !.pos = a]

laser_is_active(l) == l.collision_active

laser_is_clearable(l) == ~l.unclearable /\ laser_is_active(l)

\* faulty variant: clear_laser without the test for clearable lasers
clear_laser_unguarded(l, flags) ==
    [laser |-> [l EXCEPT !.clear_flags = @ \cup flags], ret |-> TRUE]

\* clear_laser: the laser afterwards, and the value returned
clear_laser(l, flags) ==
    IF CLEAR_HAZARDS_FORCE \notin flags /\ ~laser_is_clearable(l)
    THEN [laser |-> l, ret |-> FALSE]
    ELSE [laser |-> [l EXCEPT !.clear_flags = @ \cup flags], ret |-> TRUE]

\* faulty variant: the motion stopped, the local time offset left alone
laser_make_static_unshifted(l) == [l EXCEPT !.speed = 0]
laser_make_static(l) == [l EXCEPT !.speed = 0, !.timeshift = l.timespan]

\* laser_prepare_sampling_params with step = step2 / TimeScale; times in
\* 1/TimeScale units
laser_prepare_sampling_params(l, step2) ==
    LET c0 == TimeScale * l.timespan
        t0 == TimeScale * ((frames - l.birthtime) * l.speed - l.timespan + l.timeshift)
        over == (t0 + TimeScale * l.timespan) - TimeScale * (l.deathtime + l.timeshift)
        c1 == IF over > 0 THEN c0 - over ELSE c0
        c == IF t0 < 0 THEN c1 + t0 ELSE c1
        t == IF t0 < 0 THEN 0 ELSE t0
        ns == CeilDiv(c + step2, step2)
    IN  IF c <= 0
        THEN [ok |-> FALSE, num_samples |-> 0, time_shift |-> 0, time_step |-> 0, span |-> c]
        ELSE [ok |-> TRUE, num_samples |-> ns, time_shift |-> t,
              time_step |-> (c + step2) \div ns, span |-> c]

\* faulty variant: a profile that vanishes at both ends, tail = T/2
calc_sample_width_vanishing(l, t) ==
    LET T == TimeScale * l.timespan
        mid_ofs2 == 2 * t - T
    IN  RMul(RMul(RQ(3, 4), l.width), RQ(T * T - mid_ofs2 * mid_ofs2, T * T))

\* calc_width_params and calc_sample_width for width_exponent = 1.0: with
\* midpoint = T/2, tail = 0.625 T, tail_factor = -1 / tail^2 and scale = 0.75 w,
\*   scale * tail_factor * (mid_ofs - tail) * (mid_ofs + tail)
\*     = (3/4) width * (25 T^2 - 16 (2 t - T)^2) / (25 T^2)
\* with t and T in the same unit (here 1/TimeScale); the result in px
calc_sample_width(l, t) ==
    LET T == TimeScale * l.timespan              \* timespan in 1/TimeScale
        mid_ofs2 == 2 * t - T                    \* 2 * (t - midpoint)
        num == 25 * T * T - 16 * mid_ofs2 * mid_ofs2
    IN  RMul(RMul(RQ(3, 4), l.width), RQ(num, 25 * T * T))

laserseg_flip(s) ==
    [s EXCEPT !.pos = [a |-> s.pos.b, b |-> s.pos.a],
              !.time = [a |-> s.time.b, b |-> s.time.a],
              !.width = [a |-> s.width.b, b |-> s.width.a]]

\* faulty variant: every sampled point appended
fill_next_every(array, p, t) == Append(array, [p |-> p, t |-> t])

\* the body of the loop of fill_samples for the point p = laser_pos_at(l, t)
fill_next(array, p, t) ==
    IF array[Len(array)].p # p THEN Append(array, [p |-> p, t |-> t]) ELSE array

RECURSIVE fill_loop(_, _, _, _, _, _)
fill_loop(array, i, t, sp, l, maxtime) ==
    IF i >= sp.num_samples THEN array
    ELSE CHOOSE r \in
            { fill_loop(arr2, i + 1, t2, sp, l, maxtime)
              : arr2 \in {fill_next(array, laser_pos_at(l, t), t)},
                t2 \in {Min(t + sp.time_step, maxtime)} } : TRUE

\* fill_samples: the contents of lasers.samples afterwards
fill_samples(sp, l) ==
    LET t == sp.time_shift
        maxtime == sp.time_shift + TimeScale * l.timespan
        first == <<[p |-> laser_pos_at(l, t), t |-> t]>>
    IN  CHOOSE r \in { [arr EXCEPT ![Len(arr)].t = maxtime]
                        : arr \in {fill_loop(first, 1, t + sp.time_step, sp, l, maxtime)} }
            : TRUE

\* segment_is_visible; a and b in 1/PosScale px, bounds a FloatRect in px
segment_is_visible(a, b, bounds) ==
    \E xa \in {PosR(a[1])}, ya \in {PosR(a[2])}, xb \in {PosR(b[1])}, yb \in {PosR(b[2])},
       left \in {bounds.x}, right \in {RAdd(bounds.x, bounds.w)},
       top \in {bounds.y}, bottom \in {RAdd(bounds.y, bounds.h)} :
    LET m == RDiv(RSub(ya, yb), RSub(xa, xb))
        c == RSub(ya, RMul(m, xa))
        y0 == RAdd(RMul(m, left), c)
        y1 == RAdd(RMul(m, right), c)
    IN  IF RLe(left, xa) /\ RLe(xa, right) /\ RLe(top, ya) /\ RLe(ya, bottom) THEN TRUE
        ELSE IF RLe(left, xb) /\ RLe(xb, right) /\ RLe(top, yb) /\ RLe(yb, bottom) THEN TRUE
        ELSE IF RLt(xa, left) /\ RLt(xb, left) THEN FALSE
        ELSE IF RLt(right, xa) /\ RLt(right, xb) THEN FALSE
        ELSE IF RLt(ya, top) /\ RLt(yb, top) THEN FALSE
        ELSE IF RLt(bottom, ya) /\ RLt(bottom, yb) THEN FALSE
        ELSE IF RLe(left, xa) /\ RLe(xa, right) /\ RLe(left, xb) /\ RLe(xb, right) THEN TRUE
        ELSE RLe(top, RMax(y0, y1)) /\ RLe(RMin(y0, y1), bottom)

\* faulty variant: add_segment without the flip
add_segment_store_noflip(cseg) == cseg

\* the canonicalisation of add_segment: the segment as stored
add_segment_store(cseg) ==
    IF RLt(cseg.width.b, cseg.width.a) THEN laserseg_flip(cseg) ELSE cseg

\* faulty variant: the segment stored, the bounding box left as it is
add_segment_outside(st, cseg) == [st EXCEPT !.segs = Append(@, add_segment_store(cseg))]

\* add_segment on the state st = [l, segs]: the laser (its bbox) and the
\* segment buffer afterwards
add_segment(st, cseg) ==
    LET xa == PosR(cseg.pos.a[1])
        ya == PosR(cseg.pos.a[2])
        xb == PosR(cseg.pos.b[1])
        yb == PosR(cseg.pos.b[2])
        bbox == st.l.bbox
        nb == [top_left |-> <<RMin(bbox.top_left[1], RMin(xa, xb)),
                              RMin(bbox.top_left[2], RMin(ya, yb))>>,
               bottom_right |-> <<RMax(bbox.bottom_right[1], RMax(xa, xb)),
                                  RMax(bbox.bottom_right[2], RMax(ya, yb))>>]
    IN  [st EXCEPT !.l.bbox = nb, !.segs = Append(@, add_segment_store(cseg))]

\* faulty variant: no turn is ever small enough to skip a sample
angle_below_never(u, v) == FALSE
\* d = 1 - |cos(theta)| < thres_angular = 1e-4 for the angle theta between u and
\* v, both non-zero:  |cos| > 0.9999  <=>  sin^2 < 1 - 0.9999^2 = 19999 / 10^8
angle_below_thres(u, v) ==
    LET d == cdot(u, v)
        cos2 == RMul(RQ(d, cabs2(u)), RQ(d, cabs2(v)))
    IN  \* sin2 < 19999 / 10^8, computed without leaving 32 bits
        \E sin2 \in {RSub(RI(1), cos2)} :
            IF sin2[2] >= 5001 * sin2[1] THEN TRUE
            ELSE IF sin2[2] <= 5000 * sin2[1] THEN FALSE
            ELSE RLt(sin2, RQ(19999, 100000000))

\* faulty variant: the start point of the next segment is not moved on
construct_emit_stuck(cs, sample, w, sp, viewbounds, asserts, step) ==
    LET b == sample.p
        v1 == VSub(b, cs.a)
        cseg == [pos |-> [a |-> cs.a, b |-> b],
                 width |-> [a |-> cs.w0, b |-> w],
                 time |-> [a |-> sp.time_shift - cs.t0, b |-> sp.time_shift - sample.t]]
        base == [l |-> cs.l, segs |-> cs.segs]
    IN  CHOOSE r \in UNION
            { { [l |-> added.l, segs |-> added.segs, a |-> cs.a, t0 |-> sample.t, w0 |-> w,
                 v0 |-> v1, norm_ok |-> cs.norm_ok /\ asserts /\ cabs2(v1) # 0,
                 walk |-> Append(cs.walk, step @@ [seg |-> cseg, visible |-> vis])]
                : added \in {IF vis THEN add_segment(base, cseg) ELSE base} }
              : vis \in {segment_is_visible(cs.a, b, viewbounds)} } : TRUE

\* the tail of an iteration of the loop of construct_segments that does not
\* skip its sample: the segment from cs.a to the sample is added if visible and
\* the locals move on; w is the sample's width, step the record of the
\* iteration for cs.walk
construct_emit(cs, sample, w, sp, viewbounds, asserts, step) ==
    LET b == sample.p
        v1 == VSub(b, cs.a)
        cseg == [pos |-> [a |-> cs.a, b |-> b],
                 width |-> [a |-> cs.w0, b |-> w],
                 time |-> [a |-> sp.time_shift - cs.t0, b |-> sp.time_shift - sample.t]]
        base == [l |-> cs.l, segs |-> cs.segs]
    IN  CHOOSE r \in UNION
            { { [l |-> added.l, segs |-> added.segs, a |-> b, t0 |-> sample.t, w0 |-> w,
                 v0 |-> v1, norm_ok |-> cs.norm_ok /\ asserts /\ cabs2(v1) # 0,
                 walk |-> Append(cs.walk, step @@ [seg |-> cseg, visible |-> vis])]
                : added \in {IF vis THEN add_segment(base, cseg) ELSE base} }
              : vis \in {segment_is_visible(cs.a, b, viewbounds)} } : TRUE

\* faulty variant: the last sample is tried for skipping like every other,
\* what lies behind the array read as 0
construct_step_unguarded(cs, samples, k, sp, viewbounds) ==
    LET sample == samples[k]
        last == Len(samples)
        b == sample.p
        \* thres_temporal = num_samples / 16.0f, sample->t - t0 in units of time
        near == 16 * (sample.t - cs.t0) < TimeScale * sp.num_samples
        v1 == VSub(b, cs.a)
        norm2a_ok == cabs2(cs.v0) # 0 /\ cabs2(v1) # 0
        d1 == norm2a_ok /\ angle_below_thres(cs.v0, v1)
        beyond == IF k + 1 <= last THEN samples[k + 1].p ELSE <<0, 0>>
        v2 == VSub(beyond, b)
        norm2b_ok == cabs2(v1) # 0 /\ cabs2(v2) # 0
        d2 == norm2b_ok /\ angle_below_thres(v1, v2)
        tried == near
        skip == tried /\ d1 /\ d2
        asserts == (tried => norm2a_ok) /\ ((tried /\ d1) => norm2b_ok)
    IN  CHOOSE r \in
            { IF go.skip
              THEN [cs EXCEPT !.norm_ok = @ /\ go.ok, !.walk = Append(@, go.step)]
              ELSE construct_emit(cs, sample, w, sp, viewbounds, go.ok, go.step)
              : go \in {[skip |-> skip, ok |-> asserts,
                         step |-> [k |-> k, tried |-> tried, look |-> tried /\ d1,
                                   skip |-> skip]]},
                w \in {calc_sample_width(cs.l, sample.t - sp.time_shift)} } : TRUE

\* one iteration of the loop of construct_segments on sample k (1-based) of the
\* sample array; cs = [l, segs, a, t0, w0, v0, norm_ok, walk] holds the laser,
\* the segment buffer and the locals of construct_segments.  norm_ok and walk
\* are not in the C code: norm_ok says that no assertion or assumption has
\* failed, walk lists the iterations: the sample's index k, whether it was
\* tried for skipping, whether (sample + 1) was read, whether it was skipped,
\* and if not the segment as built, before add_segment, and whether it was
\* visible
construct_step(cs, samples, k, sp, viewbounds) ==
    LET sample == samples[k]
        last == Len(samples)
        b == sample.p
        \* thres_temporal = num_samples / 16.0f, sample->t - t0 in units of time
        near == 16 * (sample.t - cs.t0) < TimeScale * sp.num_samples
        v1 == VSub(b, cs.a)
        norm2a_ok == cabs2(cs.v0) # 0 /\ cabs2(v1) # 0
        d1 == norm2a_ok /\ angle_below_thres(cs.v0, v1)
        v2 == VSub(samples[k + 1].p, b)
        norm2b_ok == cabs2(v1) # 0 /\ cabs2(v2) # 0
        d2 == norm2b_ok /\ angle_below_thres(v1, v2)
        tried == k # last /\ near
        skip == tried /\ d1 /\ d2
        asserts == (tried => norm2a_ok) /\ ((tried /\ d1) => norm2b_ok)
    IN  CHOOSE r \in
            { IF go.skip
              THEN [cs EXCEPT !.norm_ok = @ /\ go.ok, !.walk = Append(@, go.step)]
              ELSE construct_emit(cs, sample, w, sp, viewbounds, go.ok, go.step)
              : go \in {[skip |-> skip, ok |-> asserts,
                         step |-> [k |-> k, tried |-> tried, look |-> tried /\ d1,
                                   skip |-> skip]]},
                w \in {calc_sample_width(cs.l, sample.t - sp.time_shift)} } : TRUE

RECURSIVE construct_loop(_, _, _, _, _)
construct_loop(cs, samples, k, sp, viewbounds) ==
    IF k > Len(samples) THEN cs
    ELSE CHOOSE r \in { construct_loop(cs1, samples, k + 1, sp, viewbounds)
                        : cs1 \in {construct_step(cs, samples, k, sp, viewbounds)} } : TRUE

\* construct_segments on the sample array (at least two samples): the laser and
\* the segment buffer afterwards, and whether every assertion held
construct_segments(st, samples, sp, viewbounds) ==
    LET sample0 == samples[1]
        v0 == VSub(sample0.p, samples[2].p)
        cs == [l |-> st.l, segs |-> st.segs, a |-> sample0.p, t0 |-> sample0.t,
               w0 |-> calc_sample_width(st.l, 0), v0 |-> v0, norm_ok |-> cabs2(v0) # 0,
               walk |-> <<>>]
    IN  CHOOSE r \in {construct_loop(c, samples, 2, sp, viewbounds) : c \in {cs}} : TRUE

\* l->_internal.segments_ofs and l->_internal.num_segments as quantize_laser
\* sets them: the buffer's element count before, and the growth of the buffer
quantize_ofs(segs) == Len(segs)
\* faulty variant: the count taken for the buffer's whole element count
quantize_count_total(segs, ofs) == Len(segs)
quantize_count(segs, ofs) == Len(segs) - ofs

\* the margin LASER_SDF_RANGE + l->width * 0.5 of quantize_laser
quantize_margin(l) == RAdd(RI(LASER_SDF_RANGE), RMul(l.width, RQ(1, 2)))

\* the tail of quantize_laser: the bounding box padded by aabb_margin and the
\* segment count; st = [l, segs] as the segment construction left them
quantize_finish(st, aabb_margin) ==
    [l |-> [st.l EXCEPT
              !.bbox = [top_left |-> <<RSub(@.top_left[1], aabb_margin),
                                       RSub(@.top_left[2], aabb_margin)>>,
                        bottom_right |-> <<RAdd(@.bottom_right[1], aabb_margin),
                                           RAdd(@.bottom_right[2], aabb_margin)>>],
              !.num_segments = quantize_count(st.segs, st.l.segments_ofs)],
     segs |-> st.segs]

\* quantize_laser once the samples are filled: the single-sample case or
\* construct_segments
quantize_samples(l0, segs, sp, samples, viewbounds) ==
    LET sample0 == samples[1]
        p0 == <<PosR(sample0.p[1]), PosR(sample0.p[2])>>
        st1 == [l |-> [l0 EXCEPT !.bbox = [top_left |-> p0, bottom_right |-> p0]],
                segs |-> segs]
        w == calc_sample_width(l0, sample0.t - sp.time_shift)
        t == sp.time_shift - sample0.t
    IN  IF Len(samples) = 1
        THEN IF segment_is_visible(sample0.p, sample0.p, viewbounds)
             THEN add_segment(st1, [pos |-> [a |-> sample0.p, b |-> sample0.p],
                                    width |-> [a |-> w, b |-> w],
                                    time |-> [a |-> t, b |-> t]])
             ELSE st1
        ELSE construct_segments(st1, samples, sp, viewbounds)

\* the viewport inflated by viewmargin on every side
quantize_viewbounds(viewmargin) ==
    [x |-> RNeg(viewmargin), y |-> RNeg(viewmargin),
     w |-> RAdd(RI(VIEWPORT_W), RMul(RI(2), viewmargin)),
     h |-> RAdd(RI(VIEWPORT_H), RMul(RI(2), viewmargin))]

\* the construct_segments call of quantize_laser on laser l0 with an empty
\* segment buffer: the laser, the buffer and the locals as the loop left them
quantize_walk(l0, sp, samples) ==
    LET p0 == <<PosR(samples[1].p[1]), PosR(samples[1].p[2])>>
    IN  construct_segments([l |-> [l0 EXCEPT !.bbox = [top_left |-> p0, bottom_right |-> p0]],
                            segs |-> <<>>],
                           samples, sp, quantize_viewbounds(quantize_margin(l0)))

\* quantize_laser with the samples filled and the margin computed
quantize_built(l0, segs, sp, samples, margin) ==
    CHOOSE r \in { quantize_finish(st, margin)
                   : st \in { quantize_samples(l0, segs, sp, samples, viewbounds)
                              : viewbounds \in {quantize_viewbounds(margin)} } } : TRUE

\* faulty variant: the bounding box left as it was when the span is not positive
quantize_nothing_keep(l0, segs) == [l |-> l0, segs |-> segs]
\* quantize_laser when laser_prepare_sampling_params fails: the bounding box
\* zeroed, nothing appended
quantize_nothing(l0, segs) == [l |-> [l0 EXCEPT !.bbox = ZeroBBox], segs |-> segs]

\* quantize_laser with the sampling parameters sp
quantize_sampled(l0, segs, sp) ==
    IF ~sp.ok
    THEN quantize_nothing(l0, segs)
    ELSE CHOOSE r \in { quantize_built(l0, segs, sp, samples, margin)
                        : samples \in {fill_samples(sp, l0)},
                          margin \in {quantize_margin(l0)} } : TRUE

\* quantize_laser on laser l with segment buffer segs: both afterwards
quantize_laser(l, segs) ==
    CHOOSE r \in
        { quantize_sampled(l0, segs, sp)
          : l0 \in {[l EXCEPT !.segments_ofs = quantize_ofs(segs), !.num_segments = 0,
                              !.qframe = frames]},
            sp \in {laser_prepare_sampling_params(l, 1)} } : TRUE

---------------------------------------------------------------------------
(* Geometry: src/util/geometry.c *)

\* point_in_rect; p in 1/PosScale px, r = [top_left, bottom_right] in px
point_in_rect(p, r) ==
    /\ RLe(r.top_left[1], PosR(p[1]))
    /\ RLe(PosR(p[1]), r.bottom_right[1])
    /\ RLe(r.top_left[2], PosR(p[2]))
    /\ RLe(PosR(p[2]), r.bottom_right[2])

\* lineseg_lineseg_intersection(seg0, seg1, NULL); s = sn / d and t = tn / d
lineseg_lineseg_intersection(seg0, seg1) ==
    LET s1 == VSub(seg0.b, seg0.a)
        s2 == VSub(seg1.b, seg1.a)
        d == -s2[1] * s1[2] + s1[1] * s2[2]
        sn == -s1[2] * (seg0.a[1] - seg1.a[1]) + s1[1] * (seg0.a[2] - seg1.a[2])
        tn == s2[1] * (seg0.a[2] - seg1.a[2]) - s2[2] * (seg0.a[1] - seg1.a[1])
        in01(n) == IF d > 0 THEN 0 <= n /\ n <= d ELSE d <= n /\ n <= 0
    IN  IF d = 0 THEN FALSE
        ELSE IF ~in01(sn) THEN FALSE
        ELSE in01(tn)

\* ucapsule_dist_lt without the fabs of re(q)
ucapsule_dist_lt_signed(p, ucap, x) ==
    \E ra \in {ucap.radius.a}, rb \in {ucap.radius.b}, xx \in {x},
       pp \in {VSub(p, ucap.pos.a)}, pb \in {VSub(ucap.pos.b, ucap.pos.a)} :
    \E hi \in {cabs2(pb)}, b \in {RSub(ra, rb)} :
    \E h \in {RQ(hi, PosScale * PosScale)},
       qx \in {RQ(cdot(pp, <<pb[2], -pb[1]>>), hi)},
       qy \in {RQ(cdot(pp, pb), hi)} :
    \E A \in {RSub(h, RMul(b, b))}, n \in {RAdd(RMul(qx, qx), RMul(qy, qy))},
       bqx \in {RMul(b, qx)} :
        IF hi = 0 \/ A[1] < 0 THEN FALSE
        ELSE IF SqrtMulLt(A, qy, bqx)
        THEN SqrtMulLt(RMul(h, n), RI(1), RAdd(ra, xx))
        ELSE IF SqrtMulLt(A, RSub(RI(1), qy), RNeg(bqx))
        THEN SqrtMulLt(RMul(h, RSub(RAdd(n, RI(1)), RMul(RI(2), qy))), RI(1),
                       RAdd(rb, xx))
        ELSE SqrtMulLt(A, qx, RSub(RAdd(ra, xx), RMul(b, qy)))

\* ucapsule_dist_from_point(p, ucap) < x, for a rational x.  ucap.pos in
\* 1/PosScale px, ucap.radius and x in px.  A NaN result compares false.
\*   h = |b - a|^2, q = (|cross|, dot) / h, b = ra - rb, c = (sqrt(h - b^2), b)
ucapsule_dist_lt(p, ucap, x) ==
    \E ra \in {ucap.radius.a}, rb \in {ucap.radius.b}, xx \in {x},
       pp \in {VSub(p, ucap.pos.a)}, pb \in {VSub(ucap.pos.b, ucap.pos.a)} :
    \E hi \in {cabs2(pb)}, b \in {RSub(ra, rb)} :
    \E h \in {RQ(hi, PosScale * PosScale)},
       qx \in {RQ(Abs(cdot(pp, <<pb[2], -pb[1]>>)), hi)},
       qy \in {RQ(cdot(pp, pb), hi)} :
    \E A \in {RSub(h, RMul(b, b))}, n \in {RAdd(RMul(qx, qx), RMul(qy, qy))},
       bqx \in {RMul(b, qx)} :
        IF hi = 0 \/ A[1] < 0 THEN FALSE      \* q or c is NaN: so is the result
        \* k = ccross(c, q) = sqrt(A) * qy - b * qx < 0
        ELSE IF SqrtMulLt(A, qy, bqx)
        THEN SqrtMulLt(RMul(h, n), RI(1), RAdd(ra, xx))
        \* k > re(c)  <=>  sqrt(A) * (1 - qy) < -(b * qx)
        ELSE IF SqrtMulLt(A, RSub(RI(1), qy), RNeg(bqx))
        THEN SqrtMulLt(RMul(h, RSub(RAdd(n, RI(1)), RMul(RI(2), qy))), RI(1),
                       RAdd(rb, xx))
        ELSE \* m - ra < x with m = cdot(c, q) = sqrt(A) * qx + b * qy
             SqrtMulLt(A, qx, RSub(RAdd(ra, xx), RMul(b, qy)))

\* ellipse_bbox; e = [origin, axes, angle], origin in 1/PosScale px, axes in px
ellipse_bbox(e) ==
    LET r == RQ(Max(e.axes[1], e.axes[2]), 2)
        ox == PosR(e.origin[1])
        oy == PosR(e.origin[2])
    IN  [top_left |-> <<RSub(ox, r), RSub(oy, r)>>,
         bottom_right |-> <<RAdd(ox, r), RAdd(oy, r)>>]

\* lineseg_bbox; seg.a and seg.b in 1/PosScale px
lineseg_bbox(seg) ==
    [top_left |-> <<PosR(Min(seg.a[1], seg.b[1])), PosR(Min(seg.a[2], seg.b[2]))>>,
     bottom_right |-> <<PosR(Max(seg.a[1], seg.b[1])), PosR(Max(seg.a[2], seg.b[2]))>>]

\* rect_rect_intersect
rect_rect_intersect(r1, r2, edges, corners) ==
    LET top(r) == r.top_left[2]
        bottom(r) == r.bottom_right[2]
        left(r) == r.top_left[1]
        right(r) == r.bottom_right[1]
    IN  IF \/ RLt(bottom(r1), top(r2)) \/ RLt(bottom(r2), top(r1))
           \/ RLt(right(r2), left(r1)) \/ RLt(right(r1), left(r2))
        THEN FALSE
        ELSE IF ~edges /\ (\/ bottom(r1) = top(r2) \/ top(r1) = bottom(r2)
                           \/ left(r1) = right(r2) \/ right(r1) = left(r2))
        THEN FALSE
        ELSE IF ~corners /\ (\/ left(r1) = right(r2) /\ bottom(r1) = top(r2)
                             \/ left(r1) = right(r2) /\ bottom(r2) = top(r1)
                             \/ left(r2) = right(r1) /\ bottom(r1) = top(r2)
                             \/ left(r2) = right(r1) /\ bottom(r2) = top(r1))
        THEN FALSE
        ELSE TRUE

segment_ellipse_nonintersection_heuristic(seg, e) ==
    ~rect_rect_intersect(lineseg_bbox(seg), ellipse_bbox(e), TRUE, TRUE)

\* lineseg_closest_factor_impl; m and v are pairs of rationals
lineseg_closest_factor_impl(m, v) ==
    LET lm2 == RAdd(RMul(m[1], m[1]), RMul(m[2], m[2]))
        f == RNeg(RDiv(RAdd(RMul(v[1], m[1]), RMul(v[2], m[2])), lm2))
    IN  IF lm2[1] = 0 THEN RI(0) ELSE RMax(RI(0), RMin(RI(1), f))

\* lineseg_circle_intersect_fallback(seg, c) >= 0 for a circle about the origin;
\* seg.a and seg.b are pairs of rationals
lineseg_circle_intersect_fallback(seg, radius) ==
    \E m \in {<<RSub(seg.b[1], seg.a[1]), RSub(seg.b[2], seg.a[2])>>} :
    \E f \in {lineseg_closest_factor_impl(m, seg.a)} :
    \E p \in {<<RAdd(seg.a[1], RMul(f, m[1])), RAdd(seg.a[2], RMul(f, m[2]))>>} :
        RLe(RAdd(RMul(p[1], p[1]), RMul(p[2], p[2])), RMul(radius, radius))

\* lineseg_ellipse_intersect for an ellipse with angle 0 (the rotation is by
\* cdir(0) = 1) and im(axes) # 0
lineseg_ellipse_intersect(seg, e) ==
    LET ox == PosR(e.origin[1])
        oy == PosR(e.origin[2])
        ratio == RQ(e.axes[1], e.axes[2])
        a == <<RSub(PosR(seg.a[1]), ox), RMul(RSub(PosR(seg.a[2]), oy), ratio)>>
        b == <<RSub(PosR(seg.b[1]), ox), RMul(RSub(PosR(seg.b[2]), oy), ratio)>>
    IN  IF segment_ellipse_nonintersection_heuristic(seg, e) THEN FALSE
        ELSE IF ratio[1] = 0 THEN FALSE
        ELSE lineseg_circle_intersect_fallback([a |-> a, b |-> b], RQ(e.axes[1], 2))

---------------------------------------------------------------------------
(* Collision: laser_collision *)

GRAZE_MAXDIST == 42
GRAZE_COOLDOWN == 4

laser_bbox_rect(l) == l.bbox

\* the indices of the segment buffer (0-based, as in C) that belong to l
laser_segment_indices(l) == {l.segments_ofs + i : i \in 0..(l.num_segments - 1)}

\* the capsule laser_collision builds from a segment
collision_capsule(lseg) ==
    [pos |-> lseg.pos,
     radius |-> [a |-> RMax(RSub(RMul(lseg.width.a, RQ(1, 2)), RI(4)), RI(2)),
                 b |-> RMax(RSub(RMul(lseg.width.b, RQ(1, 2)), RI(4)), RI(2))]]

\* faulty variant: the player is never taken to have moved
player_moved_never(p) == FALSE
\* player_moved as laser_collision sets it
player_moved(p) == p.velocity # <<0, 0>>

\* faulty variant: the graze test without its cooldown
graze_ready_always(l) == TRUE
\* bool graze = global.frames >= l->next_graze
graze_ready(l) == frames >= l.next_graze

\* laser_collision(l, plr) with segment buffer segs: the value returned,
\* whether player_graze was called, the laser afterwards and the buffer
\* indices read
laser_collision(l, p, segs) ==
    LET num_segs == l.num_segments
        graze == graze_ready(l)
        bbox0 == laser_bbox_rect(l)
        g == RI(GRAZE_MAXDIST)
        bbox == IF graze
                THEN [top_left |-> <<RSub(bbox0.top_left[1], g), RSub(bbox0.top_left[2], g)>>,
                      bottom_right |-> <<RAdd(bbox0.bottom_right[1], g),
                                         RAdd(bbox0.bottom_right[2], g)>>]
                ELSE bbox0
        plrmotion == [a |-> VSub(p.pos, p.velocity), b |-> p.pos]
        seg(i) == segs[l.segments_ofs + i + 1]
        hit(i) == \/ player_moved(p) /\ lineseg_lineseg_intersection(plrmotion, seg(i).pos)
                  \/ ucapsule_dist_lt(p.pos, collision_capsule(seg(i)), RI(0))
        hits == {i \in 0..(num_segs - 1) : hit(i)}
        first(hs) == CHOOSE i \in hs : \A j \in hs : i <= j
        near == \E i \in 0..(num_segs - 1) :
                    ucapsule_dist_lt(p.pos, collision_capsule(seg(i)), g)
        none == [ret |-> FALSE, graze |-> FALSE, l |-> l, reads |-> {}]
    IN  IF ~laser_is_active(l) THEN none
        ELSE IF num_segs < 1 THEN none
        ELSE IF ~point_in_rect(p.pos, bbox) THEN none
        ELSE CHOOSE r \in
            { IF hs # {}
              THEN [ret |-> TRUE, graze |-> FALSE, l |-> l,
                    reads |-> {l.segments_ofs + i : i \in 0..first(hs)}]
              ELSE IF graze /\ near
              THEN [ret |-> FALSE, graze |-> TRUE,
                    l |-> [l EXCEPT !.next_graze = frames + GRAZE_COOLDOWN,
                                    !.ghist = Append(@, frames)],
                    reads |-> laser_segment_indices(l)]
              ELSE [ret |-> FALSE, graze |-> FALSE, l |-> l,
                    reads |-> laser_segment_indices(l)]
              : hs \in {hits} } : TRUE

\* the test laser_trace starts with: it returns NULL with no callback
laser_trace_empty(l) == l.num_segments < 1

\* laser_intersects_ellipse(l, ellipse) with segment buffer segs
laser_intersects_ellipse(l, ellipse, segs) ==
    LET num_segs == l.num_segments
        seg(i) == segs[l.segments_ofs + i + 1]
    IN  IF num_segs < 1 THEN FALSE
        ELSE IF ~rect_rect_intersect(ellipse_bbox(ellipse), laser_bbox_rect(l), TRUE, TRUE)
        THEN FALSE
        ELSE \E i \in 0..(num_segs - 1) : lineseg_ellipse_intersect(seg(i).pos, ellipse)

\* faulty variant: collision enabled as soon as the beam has any width
charge_collision_active_any(new_width, width) == RLt(RI(0), new_width)
\* new_width > width * 0.6f
charge_collision_active(new_width, width) == RLt(RMul(width, RQ(6, 10)), new_width)

\* laser_charge(l, t, charge, width): t, charge and l.deathtime are integers,
\* width a rational
laser_charge(l, t, charge, width) ==
    LET w20 == RMul(width, RQ(1, 20))
        new_width ==
            IF t < charge - 10
            THEN RMin(RI(2), RQ(2 * t, Min(30, charge - 10)))
            ELSE IF t >= charge - 10 /\ t < l.deathtime - 20
            THEN RMin(width, RAdd(RQ(17, 10), RMul(w20, RI(t - charge + 10))))
            ELSE IF t >= l.deathtime - 20
            THEN RMax(RI(0), RSub(width, RMul(w20, RI(t - l.deathtime + 20))))
            ELSE width
    IN  [l EXCEPT !.width = new_width,
                  !.collision_active = charge_collision_active(new_width, width)]

---------------------------------------------------------------------------
(* The frame loop: process_lasers, the scripts that create and clear lasers *)

MaxFrames == 3
MaxSpawn == 2

NoEvent == [op |-> "none", id |-> 0, active |-> FALSE, nsegs |-> 0, flags |-> {},
            ret |-> FALSE, graze |-> FALSE, reads |-> {}, stale |-> FALSE, arg |-> {}]

NoPlayer == [pos |-> <<0, 0>>, velocity |-> <<0, 0>>]

\* what the stage scripts create; positions in px, velocities in px per unit
\* of time.  kind "laser": create_laser with a linear rule; kind "line":
\* create_laserline_ab, which starts the laser_charge task.
LaserTemplates ==
    { [kind |-> "laser", pos |-> <<100, 100>>, vel |-> <<0, 40>>, time |-> 1,
       deathtime |-> 1, unclearable |-> FALSE],
      [kind |-> "laser", pos |-> <<100, 140>>, vel |-> <<0, 0>>, time |-> 1,
       deathtime |-> 1, unclearable |-> TRUE],
      [kind |-> "laser", pos |-> <<-300, -300>>, vel |-> <<-20, 0>>, time |-> 1,
       deathtime |-> 1, unclearable |-> FALSE],
      [kind |-> "line", pos |-> <<200, 100>>, vel |-> <<0, 20>>, time |-> 4,
       deathtime |-> 1, unclearable |-> FALSE] }

\* the player, as process_lasers finds it: pos in px, velocity in px per frame
PlayerStates ==
    { [pos |-> <<100, 120>>, velocity |-> <<0, 0>>],
      [pos |-> <<130, 110>>, velocity |-> <<60, 0>>],
      [pos |-> <<200, 120>>, velocity |-> <<0, 0>>] }

ToPos(v) == VScale(PosScale, v)

LineCharge == 11
LineWidth == 20

\* the laser a script creates from template tp, with the laser_charge task run
\* up to its first YIELD for a laser line
spawn(tp, id) ==
    LET l0 == create_laser(id, ToPos(tp.pos), tp.time, tp.deathtime,
                           [tag |-> "linear", velocity |-> tp.vel])
        l1 == [l0 EXCEPT !.unclearable = tp.unclearable]
        l2 == laser_make_static([l1 EXCEPT !.width = RI(0), !.collision_active = FALSE])
    IN  IF tp.kind = "line"
        THEN [task |-> 1, l |-> laser_charge(l2, 0, LineCharge, RI(LineWidth))]
        ELSE [task |-> -1, l |-> l1]

\* a laser of the registry: the C object, and the loop counter t of its
\* laser_charge task (-1: no task)
CreateLaserFrom(templates, last) ==
    /\ pc = "idle"
    /\ nextid <= last
    /\ \E tp \in templates :
          LET s == spawn(tp, nextid)
          IN  lasers' = Append(lasers, [s.l EXCEPT !.qframe = -1] @@ [task |-> s.task])
    /\ nextid' = nextid + 1
    /\ UNCHANGED <<frames, segments, pc, cur, stage_cleared, plr, ev, resets, tr, ch, rl, co, ws, uc, sm>>

CreateLaser == CreateLaserFrom(LaserTemplates, MaxSpawn)

\* a script (a bomb, a spell ending) calls clear_laser on a laser
ScriptClear ==
    /\ pc = "idle"
    /\ \E i \in 1..Len(lasers) :
          /\ lasers' = [lasers EXCEPT ![i] = clear_laser(@, {CLEAR_HAZARDS_LASERS}).laser]
          /\ lasers' # lasers
    /\ UNCHANGED <<frames, segments, pc, cur, stage_cleared, plr, ev, resets, nextid,
                   tr, ch, rl, co, ws, uc, sm>>

\* process_lasers up to its first loop: the buffer is emptied
ProcessBegin ==
    /\ pc = "idle"
    /\ pc' = "pass1"
    /\ cur' = 1
    /\ segments' = <<>>
    /\ resets' = resets + 1
    /\ stage_cleared' \in BOOLEAN
    /\ ev' = NoEvent
    /\ UNCHANGED <<frames, lasers, plr, nextid, tr, ch, rl, co, ws, uc, sm>>

\* faulty variant: no laser ever counts as expired
laser_expired_never(l) == FALSE
\* the expiry test of the first loop
laser_expired(l) == frames - l.birthtime > l.deathtime + l.timespan * l.speed

\* faulty variant: the first loop left after its first iteration
loop1_continue_once(ls, i) == i <= Len(ls) /\ i <= 1
\* the first loop runs while it has a laser
loop1_continue(ls, i) == i <= Len(ls)

\* faulty variant: the second loop without the branch for cleared lasers
pass2_clears_never(l) == FALSE
\* the second loop's test: the laser carries the laser clear flag
pass2_clears(l) == CLEAR_HAZARDS_LASERS \in l.clear_flags

RemoveAt(s, i) == SubSeq(s, 1, i - 1) \o SubSeq(s, i + 1, Len(s))

\* one iteration of the first loop
Pass1Step ==
    /\ pc = "pass1"
    /\ loop1_continue(lasers, cur)
    /\ \E laser \in {lasers[cur]} :
          IF laser_expired(laser)
          THEN /\ lasers' = RemoveAt(lasers, cur)
               /\ ev' = [NoEvent EXCEPT !.op = "delete", !.id = laser.id]
               /\ UNCHANGED <<cur, segments, ws, uc, sm>>
          ELSE \E q \in {quantize_laser(laser, segments)} :
               \E c \in {IF stage_cleared
                          THEN clear_laser(q.l, {CLEAR_HAZARDS_LASERS,
                                                 CLEAR_HAZARDS_FORCE}).laser
                          ELSE q.l} :
                  /\ lasers' = [lasers EXCEPT ![cur] = c]
                  /\ segments' = q.segs
                  /\ cur' = cur + 1
                  /\ ev' = [NoEvent EXCEPT !.op = "quantize", !.id = laser.id,
                                           !.nsegs = c.num_segments,
                                           !.flags = c.clear_flags]
    /\ UNCHANGED <<frames, pc, stage_cleared, plr, resets, nextid, tr, ch, rl, co, ws, uc, sm>>

\* the first loop is over, the second begins.  global.plr does not change
\* during process_lasers and is first read here.
Pass2BeginWith(players) ==
    /\ pc = "pass1"
    /\ ~loop1_continue(lasers, cur)
    /\ pc' = "pass2"
    /\ cur' = 1
    /\ \E p \in players :
          plr' = [pos |-> ToPos(p.pos), velocity |-> ToPos(p.velocity)]
    /\ UNCHANGED <<frames, lasers, segments, stage_cleared, ev, resets, nextid,
                   tr, ch, rl, co, ws, uc, sm>>

Pass2Begin == Pass2BeginWith(PlayerStates)

\* one iteration of the second loop.  ent_damage may run game rules that poke
\* at every laser (a discharge cancelling the lasers in a circle): they read the
\* segment ranges of all lasers and call clear_laser on some.
Pass2Step ==
    /\ pc = "pass2"
    /\ cur <= Len(lasers)
    /\ \E laser \in {lasers[cur]} :
       \E seen \in {[NoEvent EXCEPT !.id = laser.id, !.active = laser_is_active(laser),
                                   !.nsegs = laser.num_segments, !.flags = laser.clear_flags]} :
          IF pass2_clears(laser)
          THEN /\ lasers' = [lasers EXCEPT ![cur].deathtime = 0]
               /\ ev' = [seen EXCEPT !.op = "clear_now",
                                     !.reads = laser_segment_indices(laser),
                                     !.stale = laser.qframe # frames]
          ELSE \E r \in {laser_collision(laser, plr, segments)} :
               IF r.ret
               THEN \E victims \in SUBSET (1..Len(lasers)) :
                      /\ lasers' = [i \in 1..Len(lasers) |->
                                      LET li == IF i = cur THEN r.l @@ [task |-> laser.task]
                                                ELSE lasers[i]
                                      IN  IF i \in victims
                                          THEN clear_laser(li, {CLEAR_HAZARDS_LASERS}).laser
                                          ELSE li]
                      /\ ev' = [seen EXCEPT !.op = "collision", !.ret = TRUE,
                                            !.reads = r.reads,
                                            !.stale = \E i \in 1..Len(lasers) :
                                                         lasers[i].qframe # frames]
               ELSE /\ lasers' = [lasers EXCEPT ![cur] = r.l @@ [task |-> laser.task]]
                    /\ ev' = [seen EXCEPT !.op = "collision", !.graze = r.graze,
                                          !.reads = r.reads,
                                          !.stale = laser.qframe # frames]
    /\ cur' = cur + 1
    /\ UNCHANGED <<frames, segments, pc, stage_cleared, plr, resets, nextid, tr, ch, rl, co, ws, uc, sm>>

\* the laser_charge task of a laser line, resumed once per frame
run_task(l) ==
    IF l.task < 0 THEN l
    ELSE [laser_charge(l, l.task, LineCharge, RI(LineWidth)) EXCEPT !.task = l.task + 1]

\* process_lasers returns; the frame ends, the next begins and the tasks run
ProcessEndBefore(last) ==
    /\ pc = "pass2"
    /\ cur > Len(lasers)
    /\ frames < last
    /\ pc' = "idle"
    /\ cur' = 0
    /\ frames' = frames + 1
    /\ lasers' = [i \in 1..Len(lasers) |-> run_task(lasers[i])]
    /\ resets' = 0
    /\ plr' = NoPlayer
    /\ ev' = NoEvent
    /\ stage_cleared' = FALSE
    /\ UNCHANGED <<segments, nextid, tr, ch, rl, co, ws, uc, sm>>

ProcessEnd == ProcessEndBefore(MaxFrames)

NoTrace == [phase |-> "none"]
NoCharge == [phase |-> "none"]
NoRule == [phase |-> "none"]
NoColl == [phase |-> "none"]
NoWidth == [phase |-> "none"]
NoCapsule == [phase |-> "none"]
NoSampling == [phase |-> "none"]

Init ==
    /\ frames = 0
    /\ lasers = <<>>
    /\ segments = <<>>
    /\ pc = "idle"
    /\ cur = 0
    /\ stage_cleared = FALSE
    /\ plr = NoPlayer
    /\ ev = NoEvent
    /\ resets = 0
    /\ nextid = 1
    /\ tr = NoTrace
    /\ ch = NoCharge
    /\ rl = NoRule
    /\ co = NoColl
    /\ ws = NoWidth
    /\ uc = NoCapsule
    /\ sm = NoSampling

Next ==
    \/ CreateLaser
    \/ ScriptClear
    \/ ProcessBegin
    \/ Pass1Step
    \/ Pass2Begin
    \/ Pass2Step
    \/ ProcessEnd

Spec == Init /\ [][Next]_vars

---------------------------------------------------------------------------
(* Claims about the frame loop *)

AllQuantized == \A i \in 1..Len(lasers) : lasers[i].qframe = frames

\* C1: in every frame every live laser has been quantized for the current
\* frame before the second pass makes its first laser_clear_now or
\* laser_collision call, so nothing run from the second pass (the calls
\* themselves, the game rules ent_damage triggers) sees a range of an earlier
\* frame.
C1_RebuildBeforeUse ==
    /\ pc = "pass2" => AllQuantized
    /\ ev.op \in {"clear_now", "collision"} => ~ev.stale

\* a hit in the second pass, with another laser in the registry
C1_Witness ==
    /\ pc = "pass2"
    /\ Len(lasers) >= 2
    /\ ev.op = "collision"
    /\ ev.ret

\* the ranges of the lasers ls[1..k] tile the buffer indices 0..n-1 in order
RangesTile(ls, k, n) ==
    /\ k = 0 => n = 0
    /\ k > 0 => ls[1].segments_ofs = 0 /\ ls[k].segments_ofs + ls[k].num_segments = n
    /\ \A i \in 1..k : ls[i].num_segments >= 0
    /\ \A i \in 1..(k - 1) :
          ls[i + 1].segments_ofs = ls[i].segments_ofs + ls[i].num_segments

EvLaser == CHOOSE i \in 1..Len(lasers) : lasers[i].id = ev.id

\* C2: the buffer is emptied once per frame before the rebuild pass; after the
\* rebuild pass the ranges of the live lasers are contiguous, disjoint, inside
\* the buffer, in registry order, and their counts sum to the buffer's element
\* count; the calls of the second pass read only indices of the laser's own
\* range.
C2_RangesPartitionBuffer ==
    /\ pc \in {"pass1", "pass2"} => resets = 1
    /\ pc = "pass1" => RangesTile(lasers, cur - 1, Len(segments))
    /\ pc = "pass2" =>
          /\ RangesTile(lasers, Len(lasers), Len(segments))
          /\ \A i, j \in 1..Len(lasers) :
                i # j => laser_segment_indices(lasers[i]) \cap
                         laser_segment_indices(lasers[j]) = {}
          /\ \A i \in 1..Len(lasers) :
                laser_segment_indices(lasers[i]) \subseteq 0..(Len(segments) - 1)
    /\ ev.op \in {"clear_now", "collision"} =>
          /\ ev.reads \subseteq laser_segment_indices(lasers[EvLaser])
          /\ ev.reads \subseteq 0..(Len(segments) - 1)

\* two lasers with segments after the rebuild pass, the second one read
C2_Witness ==
    /\ pc = "pass2"
    /\ Len(lasers) >= 2
    /\ \A i \in 1..Len(lasers) : lasers[i].num_segments >= 1
    /\ ev.op = "collision"
    /\ ev.reads # {}
    /\ EvLaser = 2

\* C3: every segment in the buffer has width.a <= width.b
C3_SegmentsCanonical ==
    \A i \in 1..Len(segments) : RLe(segments[i].width.a, segments[i].width.b)

\* a stored segment that add_segment flipped: its times run backwards
C3_Witness ==
    \E i \in 1..Len(segments) :
       /\ segments[i].time.a < segments[i].time.b
       /\ RLt(segments[i].width.a, segments[i].width.b)

\* C6: laser_collision reports a hit or a graze only for a collision-active
\* laser with at least one segment, and process_lasers never calls it on a
\* laser that carries the laser clear flag: such a laser gets the clear effect
\* and deathtime 0.
C6_OnlyLiveLasersHit ==
    /\ ev.op = "collision" => CLEAR_HAZARDS_LASERS \notin ev.flags
    /\ (ev.op = "collision" /\ (ev.ret \/ ev.graze)) => (ev.active /\ ev.nsegs >= 1)
    /\ \A i \in 1..Len(lasers) :
          (pc = "pass2" /\ i < cur /\ lasers[i].id = ev.id
                /\ CLEAR_HAZARDS_LASERS \in ev.flags)
             => (ev.op = "clear_now" /\ lasers[i].deathtime = 0)

\* a laser that would have hit the player is cleared instead
C6_Witness ==
    /\ ev.op = "clear_now"
    /\ laser_collision([lasers[EvLaser] EXCEPT !.clear_flags = {}], plr, segments).ret


---------------------------------------------------------------------------
(* A laser whose visible span is not positive *)

\* the agents and ellipses a laser is tested against: the players of the frame
\* loop, and a player and ellipses at the zero point and next to the lasers
ProbePlayers ==
    {[pos |-> ToPos(p.pos), velocity |-> ToPos(p.velocity)] : p \in PlayerStates}
        \cup {[pos |-> <<0, 0>>, velocity |-> <<0, 0>>],
              [pos |-> ToPos(<<100, 130>>), velocity |-> ToPos(<<0, 20>>)]}
ProbeEllipses ==
    { [origin |-> ToPos(<<0, 0>>), axes |-> <<60, 60>>, angle |-> 0],
      [origin |-> ToPos(<<100, 120>>), axes |-> <<40, 20>>, angle |-> 0],
      [origin |-> ToPos(<<200, 100>>), axes |-> <<10, 30>>, angle |-> 0] }

\* laser_prepare_sampling_params fails for the laser in the current frame
EmptyWindow(l) == ~laser_prepare_sampling_params(l, 1).ok

\* the laser was quantized in the current frame and the second loop has not
\* changed it since (the loop sets the deathtime of a cleared laser to 0)
QuantizedAsIs(i) ==
    /\ lasers[i].qframe = frames
    /\ pc = "pass1" \/ (pc = "pass2" /\ i >= cur)

\* a laser with no positive span has no segments and the zero box, and every
\* query on it comes back empty
EmptyIsInert ==
    \A i \in 1..Len(lasers) :
        (QuantizedAsIs(i) /\ EmptyWindow(lasers[i])) =>
            /\ lasers[i].num_segments = 0
            /\ lasers[i].bbox = ZeroBBox
            /\ \A p \in ProbePlayers :
                  /\ ~laser_collision(lasers[i], p, segments).ret
                  /\ ~laser_collision(lasers[i], p, segments).graze
            /\ \A e \in ProbeEllipses : ~laser_intersects_ellipse(lasers[i], e, segments)
            /\ laser_trace_empty(lasers[i])

\* quantizing such a laser appends nothing to the segment buffer
EmptyAppendsNothing ==
    (pc = "pass1" /\ cur' = cur + 1 /\ EmptyWindow(lasers[cur])) => segments' = segments

\* what quantize_laser leaves in a laser does not depend on what an earlier
\* frame left there
FromScratch ==
    (pc = "pass1" /\ cur' = cur + 1) =>
        \E q \in {quantize_laser([lasers[cur] EXCEPT !.bbox = ZeroBBox, !.num_segments = 0,
                                                      !.segments_ofs = 0], segments)} :
            /\ lasers'[cur].bbox = q.l.bbox
            /\ lasers'[cur].num_segments = q.l.num_segments
            /\ lasers'[cur].segments_ofs = q.l.segments_ofs
            /\ segments' = q.segs

\* C15: when the visible span computed by laser_prepare_sampling_params is
\* <= 0, quantize_laser appends nothing, sets the segment count to 0 and the
\* bounding box to the zero point, and in that frame laser_collision,
\* laser_intersects_ellipse and laser_trace report nothing for the laser; the
\* next frame quantizes it anew.
C15_EmptyWindowIsInert ==
    /\ [](EmptyIsInert /\ (pc = "pass2" => AllQuantized))
    /\ [][EmptyAppendsNothing /\ FromScratch]_vars

\* the second loop tests a laser that lost its span in this frame and had
\* segments in the frame before
C15_Witness ==
    /\ ev.op = "collision"
    /\ EvLaser # 0
    /\ EmptyWindow(lasers[EvLaser])
    /\ lasers[EvLaser].birthtime < frames

---------------------------------------------------------------------------
(* A laser that lies outside the inflated viewport *)

\* the laser has a positive span in the current frame and all its samples lie
\* beyond one side of the viewport inflated by the quantizer's margin, so that
\* every segment between samples lies fully outside it
OffViewport(l) ==
    LET sp == laser_prepare_sampling_params(l, 1)
        vb == quantize_viewbounds(quantize_margin(l))
    IN  /\ sp.ok
        /\ \E samples \in {fill_samples(sp, l)} :
              \/ \A k \in 1..Len(samples) : RLt(PosR(samples[k].p[1]), vb.x)
              \/ \A k \in 1..Len(samples) : RLt(RAdd(vb.x, vb.w), PosR(samples[k].p[1]))
              \/ \A k \in 1..Len(samples) : RLt(PosR(samples[k].p[2]), vb.y)
              \/ \A k \in 1..Len(samples) : RLt(RAdd(vb.y, vb.h), PosR(samples[k].p[2]))

\* C16: when a laser's window is valid but every one of its segments lies
\* fully outside the inflated viewport rectangle, quantize_laser yields zero
\* segments and a bounding box collapsed to a single point.
C16_CulledBoxCollapsed ==
    \A i \in 1..Len(lasers) :
        (QuantizedAsIs(i) /\ OffViewport(lasers[i])) =>
            /\ lasers[i].num_segments = 0
            /\ lasers[i].bbox.top_left = lasers[i].bbox.bottom_right

\* what the code does: no segments, and the box of the first sample padded by
\* the margin on every side
C16_CulledBoxPadded ==
    \A i \in 1..Len(lasers) :
        (QuantizedAsIs(i) /\ OffViewport(lasers[i])) =>
            /\ lasers[i].num_segments = 0
            /\ RSub(lasers[i].bbox.bottom_right[1], lasers[i].bbox.top_left[1])
                   = RMul(RI(2), quantize_margin(lasers[i]))
            /\ RSub(lasers[i].bbox.bottom_right[2], lasers[i].bbox.top_left[2])
                   = RMul(RI(2), quantize_margin(lasers[i]))

---------------------------------------------------------------------------
(* Expiry: the frame loop kept running *)

MaxExpireFrames == 3
MaxExpireSpawn == 2

\* a moving laser and a static laser line
ExpireTemplates == {tp \in LaserTemplates : tp.pos \in {<<100, 100>>, <<200, 100>>}}
\* the player on the path of the moving laser
ExpirePlayers == {[pos |-> <<100, 120>>, velocity |-> <<0, 0>>]}

ExpireCreate == CreateLaserFrom(ExpireTemplates, MaxExpireSpawn)
ExpirePass2Begin == Pass2BeginWith(ExpirePlayers)
ExpireProcessEnd == ProcessEndBefore(MaxExpireFrames)

NextExpire ==
    \/ ExpireCreate
    \/ ScriptClear
    \/ ProcessBegin
    \/ Pass1Step
    \/ ExpirePass2Begin
    \/ Pass2Step
    \/ ExpireProcessEnd

\* process_lasers is called in every frame and the frames advance
SpecExpire == Init /\ [][NextExpire]_vars /\ WF_vars(NextExpire)

\* the laser has outlived deathtime + timespan * speed in the current frame
Overdue(l) == frames - l.birthtime > l.deathtime + l.timespan * l.speed
InRegistry(id) == \E i \in 1..Len(lasers) : lasers[i].id = id

\* the laser with this id is in the registry, and a frame that has not begun
\* and in which the laser has expired is still to come
Expiring(id) ==
    /\ frames < MaxExpireFrames
    /\ \E i \in 1..Len(lasers) :
          /\ lasers[i].id = id
          /\ lasers[i].birthtime + lasers[i].deathtime
                 + lasers[i].timespan * lasers[i].speed < MaxExpireFrames

\* the first loop leaves no expired laser behind: none among those it has
\* passed, none among those the second loop has still to visit (the second
\* loop sets the deathtime of the lasers it clears to 0)
NoExpiredLeft ==
    \A i \in 1..Len(lasers) :
        ((pc = "pass1" /\ i < cur) \/ (pc = "pass2" /\ i >= cur))
            => ~Overdue(lasers[i])

\* a step that deletes a laser: the laser had expired, the step takes it from
\* the registry and appends nothing to the segment buffer
DeleteIsBare ==
    (ev'.op = "delete" /\ ev' # ev) =>
        /\ Overdue(lasers[cur])
        /\ lasers[cur].id = ev'.id
        /\ lasers[cur].qframe # frames
        /\ \A j \in 1..Len(lasers') : lasers'[j].id # ev'.id
        /\ segments' = segments

\* the ids below nextid have all been given to lasers: one that is not in the
\* registry was deleted
Deleted(id) == id < nextid /\ ~InRegistry(id)

\* no operation is recorded for a deleted laser
DeletedUnvisited ==
    \A id \in 1..MaxExpireSpawn : (Deleted(id) /\ ev.id = id) => ev.op = "delete"

\* a deleted laser does not come back
DeletedStay ==
    \A id \in 1..MaxExpireSpawn :
        Deleted(id) => \A j \in 1..Len(lasers') : lasers'[j].id # id

\* C14: process_lasers deletes a laser in the first frame in which
\* frames - birthtime > deathtime + timespan * speed, without quantizing,
\* clearing or collision-testing it in that frame; every laser is deleted in
\* the end, and a deleted laser is never visited again.
C14_ExpiredAreDeleted ==
    /\ [](NoExpiredLeft /\ DeletedUnvisited)
    /\ [][DeleteIsBare /\ DeletedStay]_vars
    /\ \A id \in 1..MaxExpireSpawn : Expiring(id) ~> Deleted(id)

\* a laser is deleted while another stays in the registry and is visited
C14_Witness ==
    /\ ev.op = "delete"
    /\ Len(lasers) >= 1
    /\ pc = "pass1"
    /\ frames >= 2

---------------------------------------------------------------------------
(* Grazing over several frames *)

MaxGrazeFrames == 9

\* the player beside the beams, on the first beam, and far away
GrazePlayers ==
    { [pos |-> <<110, 120>>, velocity |-> <<0, 0>>],
      [pos |-> <<100, 120>>, velocity |-> <<0, 0>>],
      [pos |-> <<300, 300>>, velocity |-> <<0, 0>>] }

\* a beam from (x, 100) to (x, 140) that a script made static
graze_laser(id, x) ==
    laser_make_static(create_laser(id, ToPos(<<x, 100>>), 1, MaxGrazeFrames,
                                   [tag |-> "linear", velocity |-> <<0, 40>>]))
        @@ [task |-> -1]

InitGraze ==
    /\ frames = 0
    /\ lasers = <<graze_laser(1, 100), graze_laser(2, 140)>>
    /\ segments = <<>>
    /\ pc = "idle"
    /\ cur = 0
    /\ stage_cleared = FALSE
    /\ plr = NoPlayer
    /\ ev = NoEvent
    /\ resets = 0
    /\ nextid = 3
    /\ tr = NoTrace
    /\ ch = NoCharge
    /\ rl = NoRule
    /\ co = NoColl
    /\ ws = NoWidth
    /\ uc = NoCapsule
    /\ sm = NoSampling

GrazePass2Begin == Pass2BeginWith(GrazePlayers)
GrazeProcessEnd == ProcessEndBefore(MaxGrazeFrames)

NextGraze ==
    \/ ProcessBegin
    \/ Pass1Step
    \/ GrazePass2Begin
    \/ Pass2Step
    \/ GrazeProcessEnd

SpecGraze == InitGraze /\ [][NextGraze]_vars

\* the frames of h are at least 4 apart
GrazeSpaced(h) == \A k \in 1..(Len(h) - 1) : h[k + 1] >= h[k] + 4

\* C12: after laser_collision records a graze for a laser at frame f it records
\* none for that laser before frame f + 4, and a call that reports a collision
\* records no graze.
C12_GrazeCooldown ==
    /\ \A i \in 1..Len(lasers) : GrazeSpaced(lasers[i].ghist)
    /\ (ev.op = "collision" /\ ev.ret) =>
          \A k \in 1..Len(lasers[EvLaser].ghist) : lasers[EvLaser].ghist[k] # frames

\* a laser grazed a second time, as early as the cooldown allows, while the
\* other laser of the registry keeps its own cooldown
C12_Witness ==
    /\ Len(lasers) = 2
    /\ Len(lasers[1].ghist) >= 2
    /\ lasers[1].ghist[2] = lasers[1].ghist[1] + 4
    /\ lasers[2].ghist # lasers[1].ghist

---------------------------------------------------------------------------
(* Clearing: every clear_laser call, the failed ones included *)

MaxClearFrames == 1

\* the flag sets the scripts pass to clear_laser
ClearArgs == { {CLEAR_HAZARDS_LASERS}, {CLEAR_HAZARDS_LASERS, CLEAR_HAZARDS_FORCE},
               {CLEAR_HAZARDS_BULLETS} }

\* two lasers that the scripts created at frame 0
InitClear ==
    /\ frames = 0
    /\ \E t1, t2 \in LaserTemplates :
          lasers = << spawn(t1, 1).l @@ [task |-> spawn(t1, 1).task],
                      spawn(t2, 2).l @@ [task |-> spawn(t2, 2).task] >>
    /\ segments = <<>>
    /\ pc = "idle"
    /\ cur = 0
    /\ stage_cleared = FALSE
    /\ plr = NoPlayer
    /\ ev = NoEvent
    /\ resets = 0
    /\ nextid = 3
    /\ tr = NoTrace
    /\ ch = NoCharge
    /\ rl = NoRule
    /\ co = NoColl
    /\ ws = NoWidth
    /\ uc = NoCapsule
    /\ sm = NoSampling

\* a script calls clear_laser(l, flags); ev keeps the laser's state before the
\* call, the argument and the value returned
ClearCall ==
    /\ pc = "idle"
    /\ \E i \in 1..Len(lasers), flags \in ClearArgs :
          /\ lasers' = [lasers EXCEPT ![i] = clear_laser(@, flags).laser]
          /\ ev' = [NoEvent EXCEPT !.op = "clear", !.id = lasers[i].id,
                                   !.active = laser_is_active(lasers[i]),
                                   !.flags = lasers[i].clear_flags,
                                   !.arg = flags,
                                   !.ret = clear_laser(lasers[i], flags).ret]
    /\ UNCHANGED <<frames, segments, pc, cur, stage_cleared, plr, resets, nextid,
                   tr, ch, rl, co, ws, uc, sm>>

ClearProcessEnd == ProcessEndBefore(MaxClearFrames)

NextClear ==
    \/ ClearCall
    \/ ProcessBegin
    \/ Pass1Step
    \/ Pass2Begin
    \/ Pass2Step
    \/ ClearProcessEnd

SpecClear == InitClear /\ [][NextClear]_vars

\* what a clear_laser call did, from the record of the call
ClearCallContract ==
    ev.op = "clear" =>
        IF CLEAR_HAZARDS_FORCE \notin ev.arg
           /\ (lasers[EvLaser].unclearable \/ ~ev.active)
        THEN ~ev.ret /\ lasers[EvLaser].clear_flags = ev.flags
        ELSE ev.ret /\ lasers[EvLaser].clear_flags = ev.flags \cup ev.arg

\* the lasers the first loop has passed on a cleared stage carry the forced
\* laser clear
ClearedStageForces ==
    (stage_cleared /\ pc \in {"pass1", "pass2"}) =>
        \A i \in 1..Len(lasers) :
            (pc = "pass2" \/ i < cur) =>
                {CLEAR_HAZARDS_LASERS, CLEAR_HAZARDS_FORCE} \subseteq lasers[i].clear_flags

\* no step takes a clear flag from a laser that stays in the registry
FlagsKept ==
    \A i \in 1..Len(lasers) : \A j \in 1..Len(lasers') :
        lasers[i].id = lasers'[j].id => lasers[i].clear_flags \subseteq lasers'[j].clear_flags

\* C13: clear_laser without CLEAR_HAZARDS_FORCE returns false and leaves
\* clear_flags alone when the laser is unclearable or not collision-active,
\* and otherwise ORs the flags in and returns true; no step removes a clear
\* flag; on a cleared stage process_lasers force-clears every live laser.
C13_ClearContract ==
    [](ClearCallContract /\ ClearedStageForces) /\ [][FlagsKept]_vars

\* a refused clear of an unclearable laser, and a cleared stage that clears an
\* unclearable laser all the same
C13_Witness ==
    \/ /\ ev.op = "clear"
       /\ ~ev.ret
       /\ lasers[EvLaser].unclearable
       /\ ev.active
    \/ /\ pc = "pass2"
       /\ stage_cleared
       /\ \E i \in 1..Len(lasers) : lasers[i].unclearable

---------------------------------------------------------------------------
(* Single-precision arithmetic: the float type of the width computation *)

\* A float is [s, m, e] with value s * m * 2^e: s the sign (-1, 0, 1), m the
\* 24-bit significand, 2^23 <= m < 2^24, 0 for zero.  Every operation rounds
\* to nearest, ties to even.  There are no subnormal numbers, infinities or
\* NaNs here: the exponents of the width computation stay small.
F32Zero == [s |-> 0, m |-> 0, e |-> 0]

\* the float with significand q or the next one up: rem of unit is what lies
\* below q (rem < unit), sticky says that still more lies below rem
f32_pack(s, q, e, rem, unit, sticky) ==
    LET up == 2 * rem > unit \/ (2 * rem = unit /\ (sticky \/ q % 2 = 1))
        q1 == IF up THEN q + 1 ELSE q
    IN  IF q1 = 2^24 THEN [s |-> s, m |-> 2^23, e |-> e + 1]
        ELSE [s |-> s, m |-> q1, e |-> e]

RECURSIVE f32_bits(_)
f32_bits(n) == IF n = 0 THEN 0 ELSE 1 + f32_bits(n \div 2)

\* the float nearest to s * n * 2^e for an integer 0 <= n < 2^31
f32_round(s, n, e, sticky) ==
    IF n = 0 THEN F32Zero
    ELSE CHOOSE r \in
            { IF len <= 24
              THEN [s |-> s, m |-> n * 2^(24 - len), e |-> e - (24 - len)]
              ELSE f32_pack(s, n \div 2^(len - 24), e + (len - 24), n % 2^(len - 24),
                            2^(len - 24), sticky)
              : len \in {f32_bits(n)} } : TRUE

F32Int(n) == f32_round(Sign(n), Abs(n), 0, FALSE)
\* n / 2^k
F32Dyadic(n, k) == f32_round(Sign(n), Abs(n), -k, FALSE)

FNeg(a) == [a EXCEPT !.s = -a.s]

\* a * b: the 48-bit product of the significands from 12-bit halves
FMul(a, b) ==
    IF a.s = 0 \/ b.s = 0 THEN F32Zero
    ELSE LET ah == a.m \div 4096
             al == a.m % 4096
             bh == b.m \div 4096
             bl == b.m % 4096
             mid == ah * bl + al * bh
             low == (mid % 4096) * 4096 + al * bl
             high == ah * bh + mid \div 4096 + low \div 2^24
             rem == low % 2^24
         IN  IF high >= 2^23
             THEN f32_pack(a.s * b.s, high, a.e + b.e + 24, rem, 2^24, FALSE)
             ELSE f32_pack(a.s * b.s, 2 * high + rem \div 2^23, a.e + b.e + 23,
                           rem % 2^23, 2^23, FALSE)

\* the product of a float with the double n / 2^k, n small: exact in double
\* precision, rounded once when it is stored in a float
FMulDouble(a, n, k) == f32_round(a.s * Sign(n), a.m * Abs(n), a.e - k, FALSE)

\* long division of the significands, one bit at a time
RECURSIVE f32_divide(_, _, _, _)
f32_divide(q, r, d, k) ==
    IF q >= 2^23 THEN [q |-> q, r |-> r, k |-> k]
    ELSE IF 2 * r >= d THEN f32_divide(2 * q + 1, 2 * r - d, d, k + 1)
    ELSE f32_divide(2 * q, 2 * r, d, k + 1)

\* a / b, b not zero
FDiv(a, b) ==
    IF a.s = 0 THEN F32Zero
    ELSE CHOOSE r \in
            { f32_pack(a.s * b.s, x.q, a.e - b.e - x.k, x.r, b.m, FALSE)
              : x \in {f32_divide(a.m \div b.m, a.m % b.m, b.m, 0)} } : TRUE

\* x + y for floats with x.e >= y.e, neither zero: x is shifted up by at most 6
\* guard bits, y shifted down to meet it, what falls off y is sticky
f32_add_aligned(x, y) ==
    LET diff == x.e - y.e
        g == Min(diff, 6)
        sh == diff - g
        X == x.m * 2^g
        Y == IF sh >= 24 THEN 0 ELSE y.m \div 2^sh
        lost == IF sh >= 24 THEN TRUE ELSE y.m % 2^sh # 0
        S == IF x.s = y.s THEN X + Y
             ELSE X - Y - (IF lost THEN 1 ELSE 0)
    IN  IF S >= 0 THEN f32_round(x.s, S, x.e - g, lost)
        ELSE f32_round(y.s, -S, x.e - g, lost)

FAdd(a, b) ==
    IF a.s = 0 THEN b
    ELSE IF b.s = 0 THEN a
    ELSE IF a.e >= b.e THEN f32_add_aligned(a, b)
    ELSE f32_add_aligned(b, a)

FSub(a, b) == FAdd(a, FNeg(b))

\* the place of a float in the order of all floats; floats next to each other
\* are 1 apart
f32_ord(a) == IF a.s = 0 THEN 0 ELSE a.s * ((a.e + 64) * 2^23 + (a.m - 2^23) + 1)
FLe(a, b) == f32_ord(a) <= f32_ord(b)
\* how many floats apart a and b are
FUlps(a, b) == Abs(f32_ord(a) - f32_ord(b))

\* faulty variant: scale = width
calc_width_params_f_full(l) ==
    LET ts == F32Int(l.timespan)
        tail == FMulDouble(ts, 5, 3)
    IN  [midpoint |-> FMul(ts, F32Dyadic(1, 1)),
         tail |-> tail,
         tail_factor |-> FDiv(F32Int(-1), FMul(tail, tail)),
         scale |-> FDiv(F32Int(l.width[1]), F32Int(l.width[2]))]
\* calc_width_params in single precision.  l.timespan is an integer, l.width a
\* rational; timespan * 0.625 is a double product stored in a float.
calc_width_params_f(l) ==
    LET ts == F32Int(l.timespan)
        tail == FMulDouble(ts, 5, 3)
    IN  [midpoint |-> FMul(ts, F32Dyadic(1, 1)),
         tail |-> tail,
         tail_factor |-> FDiv(F32Int(-1), FMul(tail, tail)),
         scale |-> FMul(F32Dyadic(3, 2), FDiv(F32Int(l.width[1]), F32Int(l.width[2])))]

\* calc_sample_width in single precision, width_exponent = 1.0 (no powf)
calc_sample_width_f(wp, t) ==
    LET mid_ofs == FSub(t, wp.midpoint)
        w == FMul(FMul(wp.tail_factor, FSub(mid_ofs, wp.tail)), FAdd(mid_ofs, wp.tail))
    IN  FMul(wp.scale, w)

---------------------------------------------------------------------------
(* The width profile: calc_sample_width on its own *)

MaxWidthTimespan == 8
\* l->width
WidthValues == {0, 1, 10, 20}

\* the local times sampled: every half unit of time of [0, timespan]
WidthTimes(timespan) == 0..(TimeScale * timespan)

InitWidth ==
    /\ \E timespan \in 1..MaxWidthTimespan, width \in WidthValues :
       \E t \in WidthTimes(timespan) :
          ws = [phase |-> "ready", timespan |-> timespan, width |-> RI(width), t |-> t]
    /\ frames = 0
    /\ lasers = <<>>
    /\ segments = <<>>
    /\ pc = "idle"
    /\ cur = 0
    /\ stage_cleared = FALSE
    /\ plr = NoPlayer
    /\ ev = NoEvent
    /\ resets = 0
    /\ nextid = 1
    /\ tr = NoTrace
    /\ ch = NoCharge
    /\ rl = NoRule
    /\ co = NoColl
    /\ uc = NoCapsule
    /\ sm = NoSampling

\* calc_width_params and calc_sample_width are called for local time
\* ws.t / TimeScale: w is the float returned, real the value of the same
\* expression in real arithmetic
WidthEval ==
    /\ ws.phase = "ready"
    /\ ws' = [phase |-> "done", timespan |-> ws.timespan, width |-> ws.width, t |-> ws.t,
              w |-> calc_sample_width_f(calc_width_params_f(ws), F32Dyadic(ws.t, 1)),
              real |-> calc_sample_width(ws, ws.t)]
    /\ UNCHANGED <<frames, lasers, segments, pc, cur, stage_cleared, plr, ev, resets,
                   nextid, tr, ch, rl, co, uc, sm>>

NextWidth == WidthEval

SpecWidth == InitWidth /\ [][NextWidth]_vars

\* the call was for one of the two ends of the profile
AtEnd == ws.phase = "done" /\ ws.t \in {0, TimeScale * ws.timespan}
\* the call was for the midpoint of the profile, timespan / 2
AtMidpoint == ws.phase = "done" /\ 2 * ws.t = TimeScale * ws.timespan

\* a rational as a float
F32Q(r) == FDiv(F32Int(r[1]), F32Int(r[2]))

\* C18: for width exponent 1, calc_sample_width at local time 0 and at local
\* time timespan returns 0, for every timespan > 0 and every current width.
C18_EndsVanish == AtEnd => (ws.w = F32Zero /\ ws.real = RI(0))

\* C18 (amended): at local time 0 and at local time timespan calc_sample_width
\* returns 0.27 * width (0.36 of the midpoint value 0.75 * width), up to the
\* rounding of single precision; it is 0 only for width 0.
C18_EndsAreAQuarter ==
    AtEnd =>
        /\ ws.real = RMul(RQ(27, 100), ws.width)
        /\ FUlps(ws.w, F32Q(ws.real)) <= 2
        /\ ws.w = F32Zero <=> ws.width = RI(0)

\* the far end of a laser of positive width
C18_Witness == AtEnd /\ ws.t > 0 /\ ws.width # RI(0) /\ ws.w # F32Zero

\* the profile in single precision and in real arithmetic at local time
\* t / TimeScale
WidthAt(t) == calc_sample_width_f(calc_width_params_f(ws), F32Dyadic(t, 1))
RealWidthAt(t) == calc_sample_width(ws, t)

\* the midpoint value is the largest over the sampled local times
MidpointIsMax ==
    \A t \in WidthTimes(ws.timespan) :
        /\ FLe(WidthAt(t), ws.w)
        /\ RLe(RealWidthAt(t), ws.real)

\* C19: for width exponent 1, calc_sample_width at the curve midpoint returns
\* exactly 0.75 * current width, and this is the maximum of the profile over
\* local times in [0, timespan].
C19_MidpointExactMax ==
    AtMidpoint => (ws.w = F32Q(RMul(RQ(3, 4), ws.width)) /\ MidpointIsMax)

\* C19 (amended): at the midpoint calc_sample_width returns 0.75 * current
\* width in real arithmetic and that value or the float next below it in
\* single precision, and this is the maximum of the profile over local times
\* in [0, timespan].
C19_MidpointNearMax ==
    AtMidpoint =>
        /\ ws.real = RMul(RQ(3, 4), ws.width)
        /\ FUlps(ws.w, F32Q(ws.real)) <= 1
        /\ FLe(ws.w, F32Q(ws.real))
        /\ MidpointIsMax

\* a midpoint value that the rounding of tail_factor has pushed one float down
C19_Witness == AtMidpoint /\ ws.w # F32Q(RMul(RQ(3, 4), ws.width))

---------------------------------------------------------------------------
(* Quantizing a straight laser, frame after frame *)

MaxQuantFrames == 6
MaxQuantTimespan == 4

\* straight lasers of constant speed that stay inside the viewport: linear
\* rule, velocity in px per unit of time, from (100, 250)
QuantVelocities == {<<40, 0>>, <<0, 20>>, <<30, -20>>}
QuantWidths == {10, 20}

quant_laser(time, deathtime, vel, width) ==
    [create_laser(1, ToPos(<<100, 250>>), time, deathtime,
                  [tag |-> "linear", velocity |-> vel])
        EXCEPT !.width = RI(width)] @@ [task |-> -1]

InitQuant ==
    /\ frames = 0
    /\ \E time \in 1..MaxQuantTimespan, deathtime \in {2, MaxQuantFrames},
          vel \in QuantVelocities, width \in QuantWidths :
          lasers = <<quant_laser(time, deathtime, vel, width)>>
    /\ segments = <<>>
    /\ pc = "idle"
    /\ cur = 0
    /\ stage_cleared = FALSE
    /\ plr = NoPlayer
    /\ ev = NoEvent
    /\ resets = 0
    /\ nextid = 2
    /\ tr = NoTrace
    /\ ch = NoCharge
    /\ rl = NoRule
    /\ co = NoColl
    /\ ws = NoWidth
    /\ uc = NoCapsule
    /\ sm = NoSampling

\* quantize_laser is called on the laser, the segment buffer empty
QuantizeCall ==
    /\ pc = "idle"
    /\ \E q \in {quantize_laser(lasers[1], <<>>)} :
          /\ lasers' = <<q.l>>
          /\ segments' = q.segs
    /\ pc' = "quantized"
    /\ UNCHANGED <<frames, cur, stage_cleared, plr, ev, resets, nextid, tr, ch, rl, co, ws, uc, sm>>

\* the next frame
QuantFrame ==
    /\ pc = "quantized"
    /\ frames < MaxQuantFrames
    /\ frames' = frames + 1
    /\ pc' = "idle"
    /\ UNCHANGED <<lasers, segments, cur, stage_cleared, plr, ev, resets, nextid,
                   tr, ch, rl, co, ws, uc, sm>>

NextQuant == QuantizeCall \/ QuantFrame

SpecQuant == InitQuant /\ [][NextQuant]_vars

\* the laser has a positive span and every sample of it lies inside the
\* viewport, so that no segment is culled
NothingCulled(l) ==
    LET sp == laser_prepare_sampling_params(l, 1)
    IN  /\ sp.ok
        /\ \E samples \in {fill_samples(sp, l)} :
              \A k \in 1..Len(samples) :
                  /\ 0 <= samples[k].p[1] /\ samples[k].p[1] <= PosScale * VIEWPORT_W
                  /\ 0 <= samples[k].p[2] /\ samples[k].p[2] <= PosScale * VIEWPORT_H

Unflipped(s) == IF s.time.a < s.time.b THEN laserseg_flip(s) ELSE s

\* the segments of the laser run in one straight chain from the first sample
\* to the last, and only the temporal cap num_samples / 16 cuts the chain:
\* every segment but the last spans at least that much time
StraightChain(l) ==
    LET sp == laser_prepare_sampling_params(l, 1)
        n == l.num_segments
        u(i) == Unflipped(segments[l.segments_ofs + i])
    IN  \E samples \in {fill_samples(sp, l)} :
            /\ 1 <= n /\ n <= Len(samples) - 1
            /\ u(1).pos.a = samples[1].p
            /\ u(n).pos.b = samples[Len(samples)].p
            /\ \A i \in 1..(n - 1) :
                  /\ u(i).pos.b = u(i + 1).pos.a
                  /\ 16 * (u(i).time.a - u(i).time.b) >= TimeScale * sp.num_samples
            /\ \A i \in 1..n :
                  /\ ccross(VSub(u(i).pos.b, u(i).pos.a), l.rule.velocity) = 0
                  /\ cdot(VSub(u(i).pos.b, u(i).pos.a), l.rule.velocity) > 0
            /\ sp.num_samples <= 3 => n \in {1, 2}

---------------------------------------------------------------------------
(* The trace walker: laser_trace, laser_trace_advance *)

\* cabs of a vector whose length is a whole number of position units
cabs(v) == ISqrt(cabs2(v))

\* complex INFINITY, the initial prev_endpos: equal to no position
INFINITY == [inf |-> TRUE, v |-> <<0, 0>>]
EndPos(x) == [inf |-> FALSE, v |-> x]
\* faulty variant: no segment end ever equals prev_endpos
EndPosEq_never(prev, x) == FALSE
\* prev_endpos == x for a segment end x
EndPosEq(prev, x) == ~prev.inf /\ prev.v = x

\* values of the floating-point locals of the walker: [nan, v] with v a
\* rational (positions: a pair of rationals), in position units
Num(x) == [nan |-> FALSE, v |-> x]
NaNNum == [nan |-> TRUE, v |-> RI(0)]
Pt(p) == [nan |-> FALSE, v |-> <<RI(p[1]), RI(p[2])>>]
NaNPt == [nan |-> TRUE, v |-> <<RI(0), RI(0)>>]

\* what the callback is handed: *sample and the fields of *sample->segment
\* that identify the segment; n counts the callbacks
Callback(st) ==
    [n |-> st.calls + 1, seg |-> st.seg, segment_param |-> st.segment_param,
     discontinuous |-> st.discontinuous, pos |-> st.pos]

\* laser_trace_dispatch when the callback returns r
laser_trace_dispatch(st, r) ==
    [st EXCEPT !.calls = @ + 1,
               !.cb_prev = st.cb_last,
               !.cb_last = Callback(st),
               !.nonnull_at = IF @ = 0 /\ r # NULL THEN st.calls + 1 ELSE @]

\* the first three assignments of laser_trace_advance for the clamped length
\* l1.  dir / seglen is the unit vector v; seglen = 0 makes inverse_seglen
\* infinite and v NaN.
advance_move(st, dir, seglen, l1) ==
    [st EXCEPT
       !.accum = @ + l1,
       !.walked = @ + l1,
       !.segment_param =
           IF seglen = 0 \/ @.nan THEN NaNNum
           ELSE Num(RAdd(@.v, RQ(l1, seglen))),
       !.p =
           IF seglen = 0 \/ @.nan THEN NaNPt
           ELSE [nan |-> FALSE,
                 v |-> <<RAdd(@.v[1], RQ(dir[1] * l1, seglen)),
                         RAdd(@.v[2], RQ(dir[2] * l1, seglen))>>]]

\* the body of if(st->accum >= st->step) up to the callback's return
advance_emit(st, r) ==
    laser_trace_dispatch([st EXCEPT !.accum = @ - st.step, !.pos = st.p], r)

\* laser_trace_advance(st, v, l) when the callback, if called, returns r:
\* the state afterwards and the value returned
RECURSIVE laser_trace_advance(_, _, _, _, _)

\* the tail of laser_trace_advance: the recursion on what is left of l
advance_rest(st, dir, seglen, rest, r) ==
    IF rest > 0 THEN laser_trace_advance(st, dir, seglen, rest, r)
    ELSE [st |-> st, result |-> NULL]

advance_fire(moved, dir, seglen, rest, r) ==
    IF moved.accum >= moved.step
    THEN IF r # NULL
         THEN [st |-> advance_emit(moved, r), result |-> r]
         ELSE With(advance_emit(moved, r),
                   LAMBDA called : advance_rest(called, dir, seglen, rest, r))
    ELSE advance_rest(moved, dir, seglen, rest, r)

laser_trace_advance(st, dir, seglen, l, r) ==
    With(Min(l, st.step - st.accum), LAMBDA l1 :
        With(advance_move(st, dir, seglen, l1),
             LAMBDA moved : advance_fire(moved, dir, seglen, l - l1, r)))

\* faulty variant: segment_param carried over from the previous segment
segment_param_start_keep(old) == old
\* st.sample.segment_param = 0 at the top of the loop body
segment_param_start(old) == Num(RI(0))

TraceReturn(st, val) == [st EXCEPT !.phase = "returned", !.ret = val]

\* the steps a caller passes, in px
TraceSteps == {8, CLEAR_STEP, 2 * CLEAR_STEP}

\* laser_trace is called on laser tr.l with step tr.step: lines 481-498
TraceCall ==
    /\ tr.phase = "ready"
    /\ LET l == lasers[1]
           first_seg == l.segments_ofs
       IN  IF laser_trace_empty(l)
           THEN tr' = TraceReturn(tr, NULL)
           ELSE tr' = [tr EXCEPT !.phase = "seg",
                                 !.seg = first_seg,
                                 !.last_seg = first_seg + l.num_segments - 1,
                                 !.p = Pt(segments[first_seg + 1].pos.a),
                                 !.prev_endpos = INFINITY]
    /\ UNCHANGED <<frames, lasers, segments, pc, cur, stage_cleared, plr, ev, resets,
                   nextid, ch, rl, co, ws, uc, sm>>

\* the deliberate copy of the segment, flipped back if it was stored flipped
trace_segment_copy(prev_endpos, s0) ==
    IF ~EndPosEq(prev_endpos, s0.pos.a) /\ EndPosEq(prev_endpos, s0.pos.b)
    THEN laserseg_flip(s0) ELSE s0

\* the loop test and the body down to the while loop
TraceSegment ==
    /\ tr.phase = "seg"
    /\ IF tr.seg > tr.last_seg
       THEN tr' = TraceReturn(tr, NULL)
       ELSE \E s \in {trace_segment_copy(tr.prev_endpos, segments[tr.seg + 1])} :
            \E len \in {cabs(VSub(s.pos.b, s.pos.a))} :
            \E st0 \in {[tr EXCEPT !.s = s, !.len = len, !.seglen = len, !.walked = 0,
                                   !.visited = @ + 1,
                                   !.segment_param = segment_param_start(@)]} :
               IF ~EndPosEq(tr.prev_endpos, s.pos.a)
               THEN \E r \in {NULL, "hit"} :
                    \E st2 \in {laser_trace_dispatch(
                                   [st0 EXCEPT !.p = Pt(s.pos.a), !.accum = 0,
                                               !.discontinuous = TRUE,
                                               !.pos = Pt(s.pos.a), !.runs = @ + 1], r)} :
                       tr' = IF r # NULL THEN TraceReturn(st2, r)
                             ELSE [st2 EXCEPT !.discontinuous = FALSE, !.phase = "walk"]
               ELSE tr' = [st0 EXCEPT !.phase = "walk"]
    /\ UNCHANGED <<frames, lasers, segments, pc, cur, stage_cleared, plr, ev, resets,
                   nextid, ch, rl, co, ws, uc, sm>>

\* one iteration of the while loop
TraceStep ==
    /\ tr.phase = "walk"
    /\ tr.len >= tr.step
    /\ \E r \in {NULL, "hit"} :
       \E a \in {laser_trace_advance(tr, VSub(tr.s.pos.b, tr.s.pos.a), tr.seglen,
                                     tr.step, r)} :
          tr' = IF a.result # NULL THEN TraceReturn(a.st, a.result)
                ELSE [a.st EXCEPT !.len = @ - tr.step]
    /\ UNCHANGED <<frames, lasers, segments, pc, cur, stage_cleared, plr, ev, resets,
                   nextid, ch, rl, co, ws, uc, sm>>

\* the rest of the segment and the loop increment.  The value
\* laser_trace_advance returns here is not used.
TraceTail ==
    /\ tr.phase = "walk"
    /\ tr.len < tr.step
    /\ \E r \in {NULL, "hit"} :
       \E a \in {laser_trace_advance(tr, VSub(tr.s.pos.b, tr.s.pos.a), tr.seglen,
                                     tr.len, r)} :
          tr' = [a.st EXCEPT !.phase = "seg", !.prev_endpos = EndPos(tr.s.pos.b),
                             !.seg = @ + 1, !.len = 0]
    /\ UNCHANGED <<frames, lasers, segments, pc, cur, stage_cleared, plr, ev, resets,
                   nextid, ch, rl, co, ws, uc, sm>>

NoCallback == [n |-> 0, seg |-> -1, segment_param |-> Num(RI(0)),
               discontinuous |-> FALSE, pos |-> Pt(<<0, 0>>)]

NoSegment == [pos |-> [a |-> <<0, 0>>, b |-> <<0, 0>>],
              width |-> [a |-> RI(0), b |-> RI(0)], time |-> [a |-> 0, b |-> 0]]

\* a zero-initialised LaserTraceState with its step, in position units; calls,
\* cb_prev, cb_last, nonnull_at, visited, runs, walked, ret observe the walk
\* and are not fields of the C struct
TraceState(step) ==
    [phase |-> "ready", step |-> step, seg |-> 0, last_seg |-> 0, s |-> NoSegment,
     len |-> 0, seglen |-> 0, p |-> Pt(<<0, 0>>), accum |-> 0,
     segment_param |-> Num(RI(0)), discontinuous |-> FALSE, pos |-> Pt(<<0, 0>>),
     prev_endpos |-> INFINITY, calls |-> 0, cb_prev |-> NoCallback,
     cb_last |-> NoCallback, nonnull_at |-> 0, visited |-> 0, runs |-> 0,
     walked |-> 0, ret |-> NULL]

\* the lasers traced: the templates of the frame loop, a sine laser that
\* weaves across the top edge of the viewport and a laser that enters the
\* viewport from the left
TraceTemplates ==
    LaserTemplates \cup
    { [kind |-> "sine", pos |-> <<100, -12>>, vel |-> <<16, 0>>, time |-> 3,
       deathtime |-> 3, unclearable |-> FALSE],
      [kind |-> "laser", pos |-> <<-60, 100>>, vel |-> <<40, 0>>, time |-> 2,
       deathtime |-> 3, unclearable |-> FALSE] }

trace_spawn(tp) ==
    IF tp.kind = "sine"
    THEN create_laser(1, ToPos(tp.pos), tp.time, tp.deathtime,
                      [tag |-> "sine", velocity |-> tp.vel, amplitude |-> <<6, 0>>,
                       frequency |-> 1, phase |-> 0])
    ELSE IF tp.kind = "line"
    THEN laser_charge(spawn(tp, 1).l, frames, LineCharge, RI(LineWidth))
    ELSE spawn(tp, 1).l

\* a laser of age frames, quantized in this frame, and a call of laser_trace
InitTrace ==
    /\ frames \in 0..MaxFrames
    /\ \E tp \in TraceTemplates :
          LET q == quantize_laser([trace_spawn(tp) EXCEPT !.birthtime = 0], <<>>)
          IN  /\ lasers = <<q.l>>
              /\ segments = q.segs
    /\ \E step \in TraceSteps : tr = TraceState(PosScale * step)
    /\ pc = "idle"
    /\ cur = 0
    /\ stage_cleared = FALSE
    /\ plr = NoPlayer
    /\ ev = NoEvent
    /\ resets = 0
    /\ nextid = 2
    /\ ch = NoCharge
    /\ rl = NoRule
    /\ co = NoColl
    /\ ws = NoWidth
    /\ uc = NoCapsule
    /\ sm = NoSampling

NextTrace ==
    \/ TraceCall
    \/ TraceSegment
    \/ TraceStep
    \/ TraceTail

SpecTrace == InitTrace /\ [][NextTrace]_vars

\* laser_trace runs to its return: nothing else is scheduled while it does
SpecTraceLive == SpecTrace /\ WF_vars(NextTrace)

---------------------------------------------------------------------------
(* Claims about the trace walker *)

\* the traced laser's segments in buffer order, and their lengths
TracedSegs == SubSeq(segments, lasers[1].segments_ofs + 1,
                     lasers[1].segments_ofs + lasers[1].num_segments)
RECURSIVE SumLen(_, _)
SumLen(segs, i) ==
    IF i > Len(segs) THEN 0
    ELSE cabs(VSub(segs[i].pos.b, segs[i].pos.a)) + SumLen(segs, i + 1)
TotalLength == SumLen(TracedSegs, 1)

\* every segment after the first starts (stored either way round) where the
\* one before it ends; end is the end of segment i - 1
RECURSIVE Contiguous(_, _, _)
Contiguous(segs, i, end) ==
    IF i > Len(segs) THEN TRUE
    ELSE IF segs[i].pos.a = end THEN Contiguous(segs, i + 1, segs[i].pos.b)
    ELSE IF segs[i].pos.b = end THEN Contiguous(segs, i + 1, segs[i].pos.a)
    ELSE FALSE
ChainContiguous ==
    Len(TracedSegs) >= 1 /\ Contiguous(TracedSegs, 2, TracedSegs[1].pos.b)

\* C8 (the statement the code departs from): once the callback has returned a
\* non-null value, laser_trace has returned that value and the callback was
\* not called again.
C8_AbortStopsWalk ==
    tr.nonnull_at > 0 =>
        /\ tr.phase = "returned"
        /\ tr.ret # NULL
        /\ tr.calls = tr.nonnull_at

\* while the callback has only returned null: less than one step is carried,
\* and a finished walk returned null, visited every segment of the range,
\* called nothing for an empty range and called 1 + floor(L / step) times for
\* a contiguous chain of length L
TraceNullWalk ==
    tr.nonnull_at = 0 =>
        /\ tr.accum < tr.step
        /\ tr.phase = "returned" =>
              /\ tr.ret = NULL
              /\ tr.visited = lasers[1].num_segments
              /\ lasers[1].num_segments = 0 => tr.calls = 0
              /\ ChainContiguous => tr.calls = 1 + (TotalLength \div tr.step)

WalksForward == tr.s.time.a >= tr.s.time.b

\* a stored segment as construct_segments emitted it
Emitted(s) == IF s.time.a < s.time.b THEN laserseg_flip(s) ELSE s

\* the stored segments came from an unbroken chain: each emitted segment
\* starts where the one before it ended
UnbrokenChain ==
    /\ Len(TracedSegs) >= 1
    /\ \A i \in 2..Len(TracedSegs) :
          Emitted(TracedSegs[i]).pos.a = Emitted(TracedSegs[i - 1]).pos.b

\* C11 (the statement the code departs from): on a laser whose stored segments
\* form an unbroken chain the walker traverses every segment in the curve's
\* direction, whichever segments were stored flipped, and hands the callback
\* the discontinuous flag on the first sample only.
C11_FlipIsHidden ==
    UnbrokenChain =>
        /\ tr.phase = "walk" => WalksForward
        /\ (tr.cb_last.n > 0 /\ tr.cb_last.discontinuous) => tr.cb_last.n = 1

---------------------------------------------------------------------------
(* The laser_charge task of a laser line *)

MaxChargeT == 50
ChargeDelays == {0, 10, 15, 40}
TargetWidths == {0, 1, 3, 10, 20}
ChargeDeathtimes == {30, 60}

\* the task's prologue: create_laserline_ab's laser with width 0, collision
\* off, made static
charge_task_begin(dur) ==
    laser_make_static(
        [create_laser(1, ToPos(<<200, 100>>), 4, dur, [tag |-> "linear", velocity |-> <<0, 20>>])
            EXCEPT !.width = RI(0), !.collision_active = FALSE])

InitCharge ==
    /\ frames = 0
    /\ \E charge \in ChargeDelays, width \in TargetWidths, dur \in ChargeDeathtimes :
          ch = [phase |-> "charging", t |-> 0, charge_delay |-> charge,
                target_width |-> RI(width), l |-> charge_task_begin(dur)]
    /\ lasers = <<>>
    /\ segments = <<>>
    /\ pc = "idle"
    /\ cur = 0
    /\ stage_cleared = FALSE
    /\ plr = NoPlayer
    /\ ev = NoEvent
    /\ resets = 0
    /\ nextid = 2
    /\ tr = NoTrace
    /\ rl = NoRule
    /\ co = NoColl
    /\ ws = NoWidth
    /\ uc = NoCapsule
    /\ sm = NoSampling

\* one iteration of the task's loop: laser_charge(l, t, ...), YIELD, ++t
ChargeTick ==
    /\ ch.phase = "charging"
    /\ ch.t <= MaxChargeT
    /\ ch' = [ch EXCEPT !.l = laser_charge(@, ch.t, ch.charge_delay, ch.target_width),
                        !.t = @ + 1]
    /\ UNCHANGED <<frames, lasers, segments, pc, cur, stage_cleared, plr, ev, resets,
                   nextid, tr, rl, co, ws, uc, sm>>

NextCharge == ChargeTick

SpecCharge == InitCharge /\ [][NextCharge]_vars

\* C7: after a call of laser_charge the laser is collision-active only if the
\* width just assigned exceeds 0.6 times the target width; with a width below
\* 0.6 times the target it is not collision-active.
C7_ActiveOnlyAboveThreshold ==
    (ch.phase = "charging" /\ ch.t > 0) =>
        /\ ch.l.collision_active =>
              RLt(RMul(RQ(6, 10), ch.target_width), ch.l.width)
        /\ RLt(ch.l.width, RMul(RQ(6, 10), ch.target_width)) => ~ch.l.collision_active

\* a beam still growing, wide enough to hit
C7_Witness ==
    /\ ch.phase = "charging"
    /\ ch.t > 0
    /\ ch.l.collision_active
    /\ RLt(ch.l.width, ch.target_width)

---------------------------------------------------------------------------
(* Evaluating motion rules while the frames pass *)

MaxRuleT == 6

\* one laser of every rule family; a dynamic laser starts as laser_dynamic
\* leaves it at its first YIELD, with its position pushed three times
RuleTemplates ==
    { [tag |-> "linear", velocity |-> <<0, 20>>],
      [tag |-> "accelerated", velocity |-> <<10, 0>>, half_accel |-> <<0, 2>>],
      [tag |-> "sine", velocity |-> <<16, 0>>, amplitude |-> <<6, 0>>,
       frequency |-> 1, phase |-> 0],
      [tag |-> "sine_expanding", velocity |-> <<0, 10>>, amplitude |-> 1,
       frequency |-> 1, phase |-> 1],
      [tag |-> "arc", radius |-> <<30, 0>>, turn_speed |-> 1, time_ofs |-> 1],
      [tag |-> "dynamic", history |-> <<ToPos(<<100, 100>>), ToPos(<<100, 100>>),
                                        ToPos(<<100, 100>>)>>,
       histsize |-> 4, move |-> ToPos(<<0, 10>>)] }

\* the loop of the laser_dynamic task, resumed in the current frame: the
\* laser moves and its position is pushed while its deathtime has not passed;
\* after that the task stalls
laser_dynamic_resume(l) ==
    IF l.rule.tag = "dynamic" /\ frames + 1 - l.birthtime <= l.deathtime
    THEN [l EXCEPT !.pos = VAdd(@, l.rule.move),
                   !.rule.history = ringbuf_push(@, l.rule.histsize, VAdd(l.pos, l.rule.move))]
    ELSE l

NoEval == [n |-> 0]

InitRule ==
    /\ frames = 0
    /\ \E rule \in RuleTemplates :
          rl = [phase |-> "rules",
                l |-> create_laser(1, ToPos(<<100, 100>>), 2, 1, rule),
                prev |-> NoEval, last |-> NoEval]
    /\ lasers = <<>>
    /\ segments = <<>>
    /\ pc = "idle"
    /\ cur = 0
    /\ stage_cleared = FALSE
    /\ plr = NoPlayer
    /\ ev = NoEvent
    /\ resets = 0
    /\ nextid = 2
    /\ tr = NoTrace
    /\ ch = NoCharge
    /\ co = NoColl
    /\ ws = NoWidth
    /\ uc = NoCapsule
    /\ sm = NoSampling

\* the frame ends, the next one begins and the tasks are resumed
RuleFrame ==
    /\ rl.phase = "rules"
    /\ frames < MaxFrames
    /\ frames' = frames + 1
    /\ rl' = [rl EXCEPT !.l = laser_dynamic_resume(@)]
    /\ UNCHANGED <<lasers, segments, pc, cur, stage_cleared, plr, ev, resets, nextid,
                   tr, ch, co, ws, uc, sm>>

\* laser_pos_at(l, t) is called on the laser while it exists; the last two
\* evaluations are kept: the laser's fields and rule data, t, the frame and
\* the position returned
RuleEval ==
    /\ rl.phase = "rules"
    /\ ~laser_expired(rl.l)
    /\ \E t \in 0..MaxRuleT :
          rl' = [rl EXCEPT !.prev = rl.last,
                           !.last = [n |-> 1, l |-> rl.l, t |-> t, frames |-> frames,
                                     pos |-> laser_pos_at(rl.l, t)]]
    /\ UNCHANGED <<frames, lasers, segments, pc, cur, stage_cleared, plr, ev, resets,
                   nextid, tr, ch, co, ws, uc, sm>>

NextRule ==
    \/ RuleFrame
    \/ RuleEval

SpecRule == InitRule /\ [][NextRule]_vars

\* C4 (the statement the code departs from): two evaluations of a rule with
\* the same laser fields, the same rule data and the same t return the same
\* position, whatever the frame counter is.
C4_RuleIsPure ==
    (rl.prev.n = 1 /\ rl.last.n = 1 /\ rl.prev.l = rl.last.l /\ rl.prev.t = rl.last.t) =>
        rl.prev.pos = rl.last.pos

---------------------------------------------------------------------------
(* laser_collision on a quantized laser *)

\* the agent: pos in px, velocity in px per frame
CollPlayers ==
    { [pos |-> <<106, 110>>, velocity |-> <<12, 0>>],
      [pos |-> <<112, 110>>, velocity |-> <<24, 0>>],
      [pos |-> <<160, 110>>, velocity |-> <<80, 0>>],
      [pos |-> <<100, 120>>, velocity |-> <<0, 0>>],
      [pos |-> <<101, 120>>, velocity |-> <<0, 0>>],
      [pos |-> <<103, 120>>, velocity |-> <<0, 0>>],
      [pos |-> <<105, 120>>, velocity |-> <<0, 0>>],
      [pos |-> <<200, 120>>, velocity |-> <<0, 0>>],
      [pos |-> <<205, 120>>, velocity |-> <<0, 0>>],
      [pos |-> <<100, 130>>, velocity |-> <<0, 20>>],
      [pos |-> <<130, 110>>, velocity |-> <<0, 10>>],
      [pos |-> <<206, 120>>, velocity |-> <<12, 0>>],
      [pos |-> <<300, 300>>, velocity |-> <<1, 0>>] }

\* a laser of age frames, quantized in this frame, that grazed the agent in
\* the frame before or never; the agent as the second loop finds it
InitColl ==
    /\ frames \in 0..MaxFrames
    /\ \E tp \in TraceTemplates, grazed \in BOOLEAN :
          LET q == quantize_laser([trace_spawn(tp) EXCEPT !.birthtime = 0], <<>>)
          IN  /\ grazed => frames >= 1
              /\ lasers = <<[q.l EXCEPT !.next_graze =
                                IF grazed THEN frames - 1 + GRAZE_COOLDOWN ELSE 0]>>
              /\ segments = q.segs
    /\ \E p \in CollPlayers : plr = [pos |-> ToPos(p.pos), velocity |-> ToPos(p.velocity)]
    /\ co = [phase |-> "ready"]
    /\ ws = NoWidth
    /\ uc = NoCapsule
    /\ sm = NoSampling
    /\ pc = "idle"
    /\ cur = 0
    /\ stage_cleared = FALSE
    /\ ev = NoEvent
    /\ resets = 0
    /\ nextid = 2
    /\ tr = NoTrace
    /\ ch = NoCharge
    /\ rl = NoRule

\* laser_collision(l, plr); co keeps the laser as it was when called
CollTest ==
    /\ co.phase = "ready"
    /\ \E r \in {laser_collision(lasers[1], plr, segments)} :
          /\ co' = [phase |-> "done", before |-> lasers[1], ret |-> r.ret,
                    graze |-> r.graze]
          /\ lasers' = <<r.l>>
    /\ UNCHANGED <<frames, segments, pc, cur, stage_cleared, plr, ev, resets, nextid,
                   tr, ch, rl, ws, uc, sm>>

NextColl == CollTest

SpecColl == InitColl /\ [][NextColl]_vars

\* on which side of the line through a and b the point p lies
Side(a, b, p) == Sign(ccross(VSub(b, a), VSub(p, a)))

\* the segments p-q and a-b are not parallel and have a point in common
Crosses(p, q, a, b) ==
    /\ ccross(VSub(q, p), VSub(b, a)) # 0
    /\ Side(a, b, p) * Side(a, b, q) <= 0
    /\ Side(p, q, a) * Side(p, q, b) <= 0

\* the agent's swept path crosses the centerline of a segment of laser l
PathCrossesLaser(l) ==
    \E i \in laser_segment_indices(l) :
        Crosses(VSub(plr.pos, plr.velocity), plr.pos,
                segments[i + 1].pos.a, segments[i + 1].pos.b)

\* the agent's position is within the bounding box of l, widened by the graze
\* distance when the graze cooldown of l has elapsed
InsideBroadPhase(l) ==
    LET g == IF frames >= l.next_graze THEN RI(GRAZE_MAXDIST) ELSE RI(0)
    IN  /\ RLe(RSub(l.bbox.top_left[1], g), PosR(plr.pos[1]))
        /\ RLe(PosR(plr.pos[1]), RAdd(l.bbox.bottom_right[1], g))
        /\ RLe(RSub(l.bbox.top_left[2], g), PosR(plr.pos[2]))
        /\ RLe(PosR(plr.pos[2]), RAdd(l.bbox.bottom_right[2], g))

\* the agent's position is outside every capsule of laser l
OutsideCapsules(l) ==
    \A i \in laser_segment_indices(l) :
        ~ucapsule_dist_lt(plr.pos, collision_capsule(segments[i + 1]), RI(0))

\* laser_collision was called on a live laser with segments, the agent moving
\* and its swept path crossing a centerline
SweptCrossing ==
    /\ co.phase = "done"
    /\ laser_is_active(co.before)
    /\ co.before.clear_flags = {}
    /\ co.before.num_segments >= 1
    /\ plr.velocity # <<0, 0>>
    /\ PathCrossesLaser(co.before)

HalfWidthCapsule(lseg) ==
    [pos |-> lseg.pos,
     radius |-> [a |-> RMul(lseg.width.a, RQ(1, 2)),
                 b |-> RMul(lseg.width.b, RQ(1, 2))]]

\* the agent's position is strictly inside a half-width capsule of laser l
InsideHalfWidth(l) ==
    \E i \in laser_segment_indices(l) :
        ucapsule_dist_lt(plr.pos, HalfWidthCapsule(segments[i + 1]), RI(0))

\* laser_collision was called on a live laser with segments, the agent at
\* rest and inside the broad phase
RestingInsideBox ==
    /\ co.phase = "done"
    /\ laser_is_active(co.before)
    /\ co.before.clear_flags = {}
    /\ co.before.num_segments >= 1
    /\ plr.velocity = <<0, 0>>
    /\ InsideBroadPhase(co.before)

\* C20 (as stated): for an agent at rest that passes the broad phase of an
\* active laser, laser_collision reports a collision exactly when the agent
\* lies strictly inside a capsule whose end radii are half the segment's
\* start and end widths.
C20_HitIffInsideHalfWidth ==
    RestingInsideBox => (co.ret <=> InsideHalfWidth(co.before))

\* what the code computes: a collision exactly when the agent lies strictly
\* inside a capsule of radii max(width / 2 - 4, 2)
HitIffInsideShrunk ==
    RestingInsideBox => (co.ret <=> ~OutsideCapsules(co.before))

---------------------------------------------------------------------------
(* Double-precision arithmetic: the double type of the capsule distance *)

\* A natural number of any size is the sequence of its digits to the base
\* BigBase, lowest first, without leading zeros; <<>> is 0.
BigBase == 2^15

RECURSIVE small_bits(_)
small_bits(n) == IF n = 0 THEN 0 ELSE 1 + small_bits(n \div 2)

\* the number of binary digits in a digit
BigDigitBits == small_bits(BigBase) - 1

RECURSIVE BigNorm(_)
BigNorm(x) ==
    IF x = <<>> THEN <<>>
    ELSE IF x[Len(x)] = 0 THEN BigNorm(SubSeq(x, 1, Len(x) - 1))
    ELSE x

RECURSIVE BigInt(_)
BigInt(n) == IF n = 0 THEN <<>> ELSE <<n % BigBase>> \o BigInt(n \div BigBase)

BigDigit(x, i) == IF i <= Len(x) THEN x[i] ELSE 0

RECURSIVE big_add(_, _, _, _)
big_add(x, y, i, c) ==
    IF i > Len(x) /\ i > Len(y) THEN (IF c = 0 THEN <<>> ELSE <<c>>)
    ELSE LET s == BigDigit(x, i) + BigDigit(y, i) + c
         IN  <<s % BigBase>> \o big_add(x, y, i + 1, s \div BigBase)

BigAdd(x, y) == big_add(x, y, 1, 0)

RECURSIVE big_sub(_, _, _, _)
big_sub(x, y, i, c) ==
    IF i > Len(x) THEN <<>>
    ELSE LET s == x[i] - BigDigit(y, i) - c
         IN  IF s < 0 THEN <<s + BigBase>> \o big_sub(x, y, i + 1, 1)
             ELSE <<s>> \o big_sub(x, y, i + 1, 0)

\* x - y for x >= y
BigSub(x, y) == BigNorm(big_sub(x, y, 1, 0))

RECURSIVE big_cmp(_, _, _)
big_cmp(x, y, i) ==
    IF i = 0 THEN 0
    ELSE IF x[i] # y[i] THEN (IF x[i] < y[i] THEN -1 ELSE 1)
    ELSE big_cmp(x, y, i - 1)

\* -1, 0, 1 as x is below, equal to, above y
BigCmp(x, y) ==
    IF Len(x) # Len(y) THEN (IF Len(x) < Len(y) THEN -1 ELSE 1)
    ELSE big_cmp(x, y, Len(x))

RECURSIVE big_mul_small(_, _, _, _)
big_mul_small(x, k, i, c) ==
    IF i > Len(x) THEN (IF c = 0 THEN <<>> ELSE <<c>>)
    ELSE LET s == x[i] * k + c
         IN  <<s % BigBase>> \o big_mul_small(x, k, i + 1, s \div BigBase)

\* x * k for 0 <= k < BigBase
BigMulSmall(x, k) == IF k = 0 THEN <<>> ELSE big_mul_small(x, k, 1, 0)

\* x * BigBase^n
BigShiftDigits(x, n) == IF x = <<>> THEN <<>> ELSE [i \in 1..n |-> 0] \o x

RECURSIVE big_mul(_, _, _)
big_mul(x, y, i) ==
    IF i > Len(y) THEN <<>>
    ELSE BigAdd(BigShiftDigits(BigMulSmall(x, y[i]), i - 1), big_mul(x, y, i + 1))

BigMul(x, y) == big_mul(x, y, 1)

\* x * 2^n
BigShl(x, n) ==
    BigShiftDigits(BigMulSmall(x, 2^(n % BigDigitBits)), n \div BigDigitBits)

RECURSIVE big_div_small(_, _, _, _)
big_div_small(x, k, i, r) ==
    IF i = 0 THEN <<>>
    ELSE LET s == r * BigBase + x[i]
         IN  big_div_small(x, k, i - 1, s % k) \o <<s \div k>>

\* x \div 2^n
BigShr(x, n) ==
    LET d == n \div BigDigitBits
        y == IF d >= Len(x) THEN <<>> ELSE SubSeq(x, d + 1, Len(x))
    IN  BigNorm(big_div_small(y, 2^(n % BigDigitBits), Len(y), 0))

\* the number of binary digits of x
BigBits(x) ==
    IF x = <<>> THEN 0 ELSE BigDigitBits * (Len(x) - 1) + small_bits(x[Len(x)])

\* binary digit i of x, the lowest is digit 0
BigBit(x, i) ==
    (BigDigit(x, i \div BigDigitBits + 1) \div 2^(i % BigDigitBits)) % 2

BigOdd(x) == x # <<>> /\ x[1] % 2 = 1

\* one step of the long division of n by d: binary digit i of n comes down
big_divide_step(n, d, st, i) ==
    LET r2 == BigAdd(BigMulSmall(st.r, 2), BigInt(BigBit(n, i)))
        q2 == BigMulSmall(st.q, 2)
    IN  IF BigCmp(r2, d) >= 0
        THEN [q |-> BigAdd(q2, <<1>>), r |-> BigSub(r2, d)]
        ELSE [q |-> q2, r |-> r2]

\* the steps for the binary digits hi down to lo of n
RECURSIVE big_divide(_, _, _, _, _)
big_divide(n, d, st, hi, lo) ==
    IF hi < lo THEN st
    ELSE IF hi = lo THEN big_divide_step(n, d, st, hi)
    ELSE LET mid == (hi + lo + 1) \div 2
         IN  CHOOSE x \in { big_divide(n, d, st1, mid - 1, lo) :
                            st1 \in {big_divide(n, d, st, hi, mid)} } : TRUE

\* quotient and remainder of n by d, d # 0
BigDivMod(n, d) ==
    CHOOSE x \in { big_divide(n1, d1, [q |-> <<>>, r |-> <<>>], BigBits(n1) - 1, 0) :
                   n1 \in {n}, d1 \in {d} } : TRUE

\* one step of the square root of n: binary digit i of the root
big_sqrt_step(n, r, i) ==
    LET c == BigAdd(r, BigShl(<<1>>, i))
    IN  IF BigCmp(BigMul(c, c), n) <= 0 THEN c ELSE r

\* the steps for the binary digits hi down to lo of the root
RECURSIVE big_sqrt(_, _, _, _)
big_sqrt(n, r, hi, lo) ==
    IF hi < lo THEN r
    ELSE IF hi = lo THEN big_sqrt_step(n, r, hi)
    ELSE LET mid == (hi + lo + 1) \div 2
         IN  CHOOSE x \in { big_sqrt(n, r1, mid - 1, lo) :
                            r1 \in {big_sqrt(n, r, hi, mid)} } : TRUE

\* the largest r with r * r <= n
BigSqrt(n) ==
    CHOOSE x \in { big_sqrt(n1, <<>>, (BigBits(n1) + 1) \div 2, 0) : n1 \in {n} } : TRUE

\* A double is [s, m, e] with value s * m * 2^e: s the sign (-1, 0, 1), m the
\* 53-bit significand, 2^52 <= m < 2^53, 0 for zero.  Every operation rounds
\* to nearest, ties to even.  There are no subnormal numbers, infinities or
\* NaNs here: the operands of the capsule distance are of moderate size and
\* the divisor h is not zero.
F64Zero == [s |-> 0, m |-> <<>>, e |-> 0]

\* the double nearest to s * n * 2^e; sticky says that the exact value is
\* above n * 2^e by less than 2^e (n has 54 digits or more then)
f64_pack(s, n, e, sticky) ==
    LET len == BigBits(n)
        sh == len - 53
        q == BigShr(n, sh)
        rem == BigSub(n, BigShl(q, sh))
        half == BigCmp(BigMulSmall(rem, 2), BigShl(<<1>>, sh))
        up == half > 0 \/ (half = 0 /\ (sticky \/ BigOdd(q)))
        q1 == IF up THEN BigAdd(q, <<1>>) ELSE q
    IN  IF n = <<>> THEN F64Zero
        ELSE IF len <= 53 THEN [s |-> s, m |-> BigShl(n, 53 - len), e |-> e - (53 - len)]
        ELSE IF BigBits(q1) = 54 THEN [s |-> s, m |-> BigShr(q1, 1), e |-> e + sh + 1]
        ELSE [s |-> s, m |-> q1, e |-> e + sh]

f64_round(s, n, e, sticky) == With(n, LAMBDA n1 : f64_pack(s, n1, e, sticky))

\* the double of an integer, of n / 2^k
F64Int(n) == f64_round(Sign(n), BigInt(Abs(n)), 0, FALSE)
F64Dyadic(n, k) == f64_round(Sign(n), BigInt(Abs(n)), -k, FALSE)

DNeg(a) == [a EXCEPT !.s = -a.s]
DAbs(a) == [a EXCEPT !.s = a.s * a.s]

f64_mul(a, b) ==
    IF a.s = 0 \/ b.s = 0 THEN F64Zero
    ELSE f64_round(a.s * b.s, BigMul(a.m, b.m), a.e + b.e, FALSE)

DMul(a, b) == With(a, LAMBDA x : With(b, LAMBDA y : f64_mul(x, y)))

\* a / b, b not zero: 57 or 58 digits of the quotient
f64_div(a, b) ==
    IF a.s = 0 THEN F64Zero
    ELSE With(BigDivMod(BigShl(a.m, 57), b.m),
              LAMBDA x : f64_round(a.s * b.s, x.q, a.e - b.e - 57, x.r # <<>>))

DDiv(a, b) == With(a, LAMBDA x : With(b, LAMBDA y : f64_div(x, y)))

\* the exact sum of two doubles, neither zero, as sign and magnitude * 2^e
f64_sum(a, b) ==
    LET e == Min(a.e, b.e)
        x == BigShl(a.m, a.e - e)
        y == BigShl(b.m, b.e - e)
        c == BigCmp(x, y)
    IN  IF a.s = b.s THEN [s |-> a.s, n |-> BigAdd(x, y), e |-> e]
        ELSE IF c = 0 THEN [s |-> 0, n |-> <<>>, e |-> e]
        ELSE IF c > 0 THEN [s |-> a.s, n |-> BigSub(x, y), e |-> e]
        ELSE [s |-> b.s, n |-> BigSub(y, x), e |-> e]

f64_add(a, b) ==
    IF a.s = 0 THEN b
    ELSE IF b.s = 0 THEN a
    ELSE With(f64_sum(a, b), LAMBDA x : f64_round(x.s, x.n, x.e, FALSE))

DAdd(a, b) == With(a, LAMBDA x : With(b, LAMBDA y : f64_add(x, y)))

DSub(a, b) == DAdd(a, DNeg(b))

\* a < b
f64_lt(a, b) ==
    IF a.s = 0 THEN b.s > 0
    ELSE IF b.s = 0 THEN a.s < 0
    ELSE f64_sum(a, DNeg(b)).s < 0

DLt(a, b) == With(a, LAMBDA x : With(b, LAMBDA y : f64_lt(x, y)))

\* sqrt(a), a >= 0: the root of the significand shifted to 109 or 110 digits
f64_sqrt(a) ==
    IF a.s = 0 THEN F64Zero
    ELSE LET k == IF a.e % 2 = 0 THEN 56 ELSE 57
         IN  With(BigShl(a.m, k), LAMBDA n :
             With(BigSqrt(n), LAMBDA r :
                  f64_round(1, r, (a.e - k) \div 2, BigMul(r, r) # n)))

DSqrt(a) == With(a, LAMBDA x : f64_sqrt(x))

\* cdot and ccross of pairs of doubles
cdot_d(a, b) == DAdd(DMul(a[1], b[1]), DMul(a[2], b[2]))
ccross_d(a, b) == DSub(DMul(a[1], b[2]), DMul(a[2], b[1]))

\* ucapsule_dist_from_point in double precision; p0, ucap.pos.a and ucap.pos.b
\* are pairs of doubles in px, the radii doubles in px, pos.a # pos.b and
\* radius.b - radius.a no more than the length of the axis (no NaN)
ucapsule_dist_from_point(p0, ucap) ==
    With(<<DSub(p0[1], ucap.pos.a[1]), DSub(p0[2], ucap.pos.a[2])>>, LAMBDA p :
    With(<<DSub(ucap.pos.b[1], ucap.pos.a[1]), DSub(ucap.pos.b[2], ucap.pos.a[2])>>, LAMBDA pb :
    With(cdot_d(pb, pb), LAMBDA h :
    With(<<DDiv(cdot_d(p, <<pb[2], DNeg(pb[1])>>), h), DDiv(cdot_d(p, pb), h)>>, LAMBDA q0 :
    With(<<DAbs(q0[1]), q0[2]>>, LAMBDA q :
    With(DSub(ucap.radius.a, ucap.radius.b), LAMBDA b :
    With(<<DSqrt(DSub(h, DMul(b, b))), b>>, LAMBDA c :
    With(ccross_d(c, q), LAMBDA k :
    With(cdot_d(c, q), LAMBDA m :
    With(cdot_d(q, q), LAMBDA n :
        IF DLt(k, F64Zero)
        THEN DSub(DSqrt(DMul(h, n)), ucap.radius.a)
        ELSE IF DLt(c[1], k)
        THEN DSub(DSqrt(DMul(h, DSub(DAdd(n, F64Int(1)), DMul(F64Int(2), q[2])))),
                  ucap.radius.b)
        ELSE DSub(m, ucap.radius.a)))))))))))

\* the double of a position in 1/PosScale px, of a pair of them, of a rational
F64Pos(x) == DDiv(F64Int(x), F64Int(PosScale))
F64Vec(v) == <<F64Pos(v[1]), F64Pos(v[2])>>
F64Q(r) == DDiv(F64Int(r[1]), F64Int(r[2]))

---------------------------------------------------------------------------
(* The capsule distance: ucapsule_dist_from_point on its own *)

MaxCapsuleOffset == 15

\* the axis of a capsule: v is the vector from pos.a to pos.b and u a vector
\* perpendicular to it, both in 1/PosScale px; len is the length of u
CapsuleAxes ==
    { [v |-> <<22, 0>>, u |-> <<0, 1>>, len |-> 1],
      [v |-> <<0, -12>>, u |-> <<1, 0>>, len |-> 1],
      [v |-> <<12, 16>>, u |-> <<-4, 3>>, len |-> 5],
      [v |-> <<-16, 12>>, u |-> <<3, 4>>, len |-> 5] }

CapsuleOrigins == {<<0, 0>>, <<200, 240>>}

\* radii in px
CapsuleRadii == {RQ(1, 2), RQ(5, 2), RI(5), RQ(15, 2)}

\* the values the returned distance is compared with, in px
CapsuleProbes == {RQ(k, 4) : k \in -44..44}

\* a capsule with equal radii and a point on the perpendicular through the
\* midpoint of its axis, off |j| * len / PosScale px from the axis
InitCapsule ==
    /\ \E ax \in CapsuleAxes, o \in CapsuleOrigins, r \in CapsuleRadii,
          j \in -MaxCapsuleOffset..MaxCapsuleOffset :
          uc = [phase |-> "ready",
                ucap |-> [pos |-> [a |-> o, b |-> VAdd(o, ax.v)],
                          radius |-> [a |-> r, b |-> r]],
                p |-> <<o[1] + ax.v[1] \div 2 + j * ax.u[1],
                        o[2] + ax.v[2] \div 2 + j * ax.u[2]>>,
                off |-> RQ(Abs(j) * ax.len, PosScale)]
    /\ frames = 0
    /\ lasers = <<>>
    /\ segments = <<>>
    /\ pc = "idle"
    /\ cur = 0
    /\ stage_cleared = FALSE
    /\ plr = NoPlayer
    /\ ev = NoEvent
    /\ resets = 0
    /\ nextid = 1
    /\ tr = NoTrace
    /\ ch = NoCharge
    /\ rl = NoRule
    /\ co = NoColl
    /\ ws = NoWidth
    /\ sm = NoSampling

\* d = ucapsule_dist_from_point(p, ucap) as the doubles give it; lt[x] is
\* whether the distance in real arithmetic is below x
CapsuleEval ==
    /\ uc.phase = "ready"
    /\ uc' = [phase |-> "done", ucap |-> uc.ucap, p |-> uc.p, off |-> uc.off,
              lt |-> [x \in CapsuleProbes |-> ucapsule_dist_lt(uc.p, uc.ucap, x)],
              d |-> ucapsule_dist_from_point(F64Vec(uc.p),
                        [pos |-> [a |-> F64Vec(uc.ucap.pos.a), b |-> F64Vec(uc.ucap.pos.b)],
                         radius |-> [a |-> F64Q(uc.ucap.radius.a),
                                     b |-> F64Q(uc.ucap.radius.b)]])]
    /\ UNCHANGED <<frames, lasers, segments, pc, cur, stage_cleared, plr, ev, resets,
                   nextid, tr, ch, rl, co, ws, sm>>

NextCapsule == CapsuleEval

SpecCapsule == InitCapsule /\ [][NextCapsule]_vars

\* the distance from the axis minus r, exactly: a multiple of 1/4 px, a double
CapsuleExpected == F64Q(RSub(uc.off, uc.ucap.radius.a))

\* C21 (as stated): for a capsule with both radii r and a point on the
\* perpendicular through the midpoint of the axis, ucapsule_dist_from_point
\* returns the distance from the axis minus r: 0 when the point is exactly r
\* from the axis, a negative value when it is closer, a positive value when
\* it is farther.
C21_EqualRadiiDistance ==
    uc.phase = "done" =>
        /\ uc.d = CapsuleExpected
        /\ uc.off = uc.ucap.radius.a => uc.d.s = 0
        /\ RLt(uc.off, uc.ucap.radius.a) => uc.d.s < 0
        /\ RLt(uc.ucap.radius.a, uc.off) => uc.d.s > 0

\* C21 (amended): in real arithmetic the distance is the distance from the
\* axis minus r (it compares with every probe as that difference does); the
\* double returned is within 2^-40 px of it, so it is negative when the point
\* is closer than r by 1/4 px or more and positive when it is farther by 1/4
\* px or more, and at exactly r it is 0 or a rounding error of either sign.
C21_EqualRadiiNearDistance ==
    uc.phase = "done" =>
        /\ \A x \in CapsuleProbes :
              uc.lt[x] <=> RLt(RSub(uc.off, uc.ucap.radius.a), x)
        /\ DLt(DAbs(DSub(uc.d, CapsuleExpected)), F64Dyadic(1, 40))
        /\ RLt(uc.off, uc.ucap.radius.a) => uc.d.s < 0
        /\ RLt(uc.ucap.radius.a, uc.off) => uc.d.s > 0

\* a point exactly r from the axis for which the double returned is not 0
\* but negative, while the distance in real arithmetic is 0
C21_Witness ==
    /\ uc.phase = "done"
    /\ uc.off = uc.ucap.radius.a
    /\ uc.d.s < 0
    /\ ~uc.lt[RI(0)]
    /\ uc.lt[RQ(1, 4)]

---------------------------------------------------------------------------
(* A laser made static: laser_make_static and the frames after it *)

MaxStaticFrames == 5
MaxStaticTimespan == 3

\* a straight laser, not yet static; sm.made is the frame in which
\* laser_make_static was called, -1 before
InitStatic ==
    /\ frames = 0
    /\ \E time \in 1..MaxStaticTimespan, deathtime \in {0, 2, MaxStaticFrames},
          vel \in QuantVelocities :
          lasers = <<quant_laser(time, deathtime, vel, 10)>>
    /\ segments = <<>>
    /\ pc = "idle"
    /\ sm = [phase |-> "none", made |-> -1]
    /\ cur = 0
    /\ stage_cleared = FALSE
    /\ plr = NoPlayer
    /\ ev = NoEvent
    /\ resets = 0
    /\ nextid = 2
    /\ tr = NoTrace
    /\ ch = NoCharge
    /\ rl = NoRule
    /\ co = NoColl
    /\ ws = NoWidth
    /\ uc = NoCapsule

\* a script calls laser_make_static before process_lasers runs
StaticMake ==
    /\ pc = "idle"
    /\ lasers # <<>>
    /\ sm.made = -1
    /\ lasers' = <<laser_make_static(lasers[1])>>
    /\ sm' = [sm EXCEPT !.made = frames]
    /\ UNCHANGED <<frames, segments, pc, cur, stage_cleared, plr, ev, resets, nextid,
                   tr, ch, rl, co, ws, uc>>

\* the first loop of process_lasers on the one laser: the segment buffer is
\* emptied, the laser deleted if expired and quantized otherwise; sm keeps the
\* window and the samples of the call, and whether the laser was static then
StaticProcess ==
    /\ pc = "idle"
    /\ lasers # <<>>
    /\ IF laser_expired(lasers[1])
       THEN /\ lasers' = <<>>
            /\ segments' = <<>>
            /\ sm' = [phase |-> "gone", made |-> sm.made]
       ELSE \E q \in {quantize_laser(lasers[1], <<>>)},
               sp \in {laser_prepare_sampling_params(lasers[1], 1)} :
               /\ lasers' = <<q.l>>
               /\ segments' = q.segs
               /\ sm' = [phase |-> "sampled", made |-> sm.made,
                         frozen |-> sm.made # -1, sp |-> sp,
                         samples |-> IF sp.ok THEN fill_samples(sp, lasers[1]) ELSE <<>>]
    /\ pc' = "quantized"
    /\ UNCHANGED <<frames, cur, stage_cleared, plr, ev, resets, nextid,
                   tr, ch, rl, co, ws, uc>>

\* the next frame
StaticFrame ==
    /\ pc = "quantized"
    /\ frames < MaxStaticFrames
    /\ frames' = frames + 1
    /\ pc' = "idle"
    /\ UNCHANGED <<lasers, segments, cur, stage_cleared, plr, ev, resets, nextid,
                   tr, ch, rl, co, ws, uc, sm>>

NextStatic == StaticMake \/ StaticProcess \/ StaticFrame

SpecStatic == InitStatic /\ [][NextStatic]_vars

\* the laser was quantized after laser_make_static
SampledStatic == sm.phase = "sampled" /\ sm.frozen

\* the window starts at curve time 0 and spans the whole timespan
FullWindow ==
    /\ sm.sp.ok
    /\ sm.sp.time_shift = 0
    /\ sm.sp.span = TimeScale * lasers[1].timespan
    /\ sm.samples[1].t = 0
    /\ sm.samples[Len(sm.samples)].t = TimeScale * lasers[1].timespan

\* C22: after laser_make_static on a laser with deathtime >= 0, in every
\* later frame until the laser is deleted the sampler reports a window that
\* starts at curve time 0 and spans the full timespan, whatever the frame
\* counter; the window, the samples and the segments of one frame are those
\* of the frame before.
C22_StaticWindowFixed ==
    /\ [](SampledStatic => FullWindow)
    /\ [][(SampledStatic /\ sm'.phase = "sampled")
            => (sm'.sp = sm.sp /\ sm'.samples = sm.samples /\ segments' = segments)]_vars

\* a laser made static when it was a frame old or more, quantized two frames
\* or more after that, with segments
C22_Witness ==
    /\ SampledStatic
    /\ sm.made >= 1
    /\ frames >= sm.made + 2
    /\ pc = "quantized"
    /\ lasers[1].num_segments >= 1

\* C23 (as stated): after fill_samples the time of the last retained sample is
\* the end of the visible window that laser_prepare_sampling_params computed,
\* window start plus visible span, also when the window was clipped.
C23_LastSampleAtWindowEnd ==
    (sm.phase = "sampled" /\ sm.sp.ok) =>
        sm.samples[Len(sm.samples)].t = sm.sp.time_shift + sm.sp.span

\* what fill_samples does: the last retained sample gets the time
\* time_shift + timespan, clipped window or not
LastSampleAtShiftPlusTimespan ==
    (sm.phase = "sampled" /\ sm.sp.ok) =>
        sm.samples[Len(sm.samples)].t = sm.sp.time_shift + TimeScale * lasers[1].timespan

---------------------------------------------------------------------------
(* Sampling and segment construction, frame after frame *)

MaxSampleFrames == 5
MaxSampleTimespan == 4

\* curves from (200, 200): straight ones, one that does not move, one that
\* leaves the viewport on the left, a sine, and arcs that advance a quarter
\* turn and a half turn per sample
SampleRules ==
    { [tag |-> "linear", velocity |-> <<40, 0>>],
      [tag |-> "linear", velocity |-> <<30, -20>>],
      [tag |-> "linear", velocity |-> <<0, 0>>],
      [tag |-> "linear", velocity |-> <<-120, 0>>],
      [tag |-> "sine", velocity |-> <<16, 0>>, amplitude |-> <<6, 0>>,
       frequency |-> 1, phase |-> 0],
      [tag |-> "arc", radius |-> <<10, 0>>, turn_speed |-> 1, time_ofs |-> 0],
      [tag |-> "arc", radius |-> <<10, 0>>, turn_speed |-> 2, time_ofs |-> 0] }

InitSample ==
    /\ frames = 0
    /\ \E time \in 1..MaxSampleTimespan, deathtime \in {2, MaxSampleFrames},
          rule \in SampleRules :
          lasers = <<create_laser(1, ToPos(<<200, 200>>), time, deathtime, rule)
                       @@ [task |-> -1]>>
    /\ segments = <<>>
    /\ pc = "idle"
    /\ sm = NoSampling
    /\ cur = 0
    /\ stage_cleared = FALSE
    /\ plr = NoPlayer
    /\ ev = NoEvent
    /\ resets = 0
    /\ nextid = 2
    /\ tr = NoTrace
    /\ ch = NoCharge
    /\ rl = NoRule
    /\ co = NoColl
    /\ ws = NoWidth
    /\ uc = NoCapsule

\* what quantize_laser on laser l sampled and walked: the window, the samples
\* that fill_samples retained and, for two samples or more, the iterations of
\* construct_segments and whether its assertions and assumptions held
sampling_of(l) ==
    LET sp == laser_prepare_sampling_params(l, 1)
    IN  IF ~sp.ok
        THEN [phase |-> "sampled", before |-> l, sp |-> sp, samples |-> <<>>,
              walk |-> <<>>, norm_ok |-> TRUE]
        ELSE CHOOSE r \in UNION
                { { [phase |-> "sampled", before |-> l, sp |-> sp, samples |-> samples,
                     walk |-> cs.walk, norm_ok |-> cs.norm_ok]
                    : cs \in {IF Len(samples) = 1 THEN [walk |-> <<>>, norm_ok |-> TRUE]
                               ELSE quantize_walk(l, sp, samples)} }
                  : samples \in {fill_samples(sp, l)} } : TRUE

\* the first loop of process_lasers on the one laser: the segment buffer is
\* emptied, the laser deleted if expired and quantized otherwise
SampleProcess ==
    /\ pc = "idle"
    /\ lasers # <<>>
    /\ IF laser_expired(lasers[1])
       THEN /\ lasers' = <<>>
            /\ segments' = <<>>
            /\ sm' = [phase |-> "gone"]
       ELSE \E q \in {quantize_laser(lasers[1], <<>>)} :
               /\ lasers' = <<q.l>>
               /\ segments' = q.segs
               /\ sm' = sampling_of(lasers[1])
    /\ pc' = "quantized"
    /\ UNCHANGED <<frames, cur, stage_cleared, plr, ev, resets, nextid,
                   tr, ch, rl, co, ws, uc>>

\* the next frame
SampleFrame ==
    /\ pc = "quantized"
    /\ frames < MaxSampleFrames
    /\ frames' = frames + 1
    /\ pc' = "idle"
    /\ UNCHANGED <<lasers, segments, cur, stage_cleared, plr, ev, resets, nextid,
                   tr, ch, rl, co, ws, uc, sm>>

NextSample == SampleProcess \/ SampleFrame

SpecSample == InitSample /\ [][NextSample]_vars

\* quantize_laser ran construct_segments: two samples or more
Walked == sm.phase = "sampled" /\ sm.sp.ok /\ Len(sm.samples) >= 2

\* C24: in construct_segments the read of (sample + 1) happens only for
\* samples that are not the last one; the last sample is never skipped and
\* always ends a segment, added or culled.  Every sample from the second on
\* is visited once, in order.
C24_LookaheadInRange ==
    Walked =>
        LET n == Len(sm.samples)
        IN  /\ Len(sm.walk) = n - 1
            /\ \A i \in 1..(n - 1) :
                  /\ sm.walk[i].k = i + 1
                  /\ sm.walk[i].look => sm.walk[i].k + 1 <= n
                  /\ sm.walk[i].skip => sm.walk[i].look
            /\ ~sm.walk[n - 1].tried
            /\ ~sm.walk[n - 1].skip
            /\ sm.walk[n - 1].seg.pos.b = sm.samples[n].p

\* a walk in which a sample was skipped after the lookahead and the sample
\* before the last one was looked ahead from
C24_Witness ==
    /\ Walked
    /\ Len(sm.samples) >= 4
    /\ \E i \in 1..Len(sm.walk) : sm.walk[i].skip
    /\ sm.walk[Len(sm.walk) - 1].look

\* the iterations of the walk that built a segment, in order
RECURSIVE Built(_)
Built(walk) ==
    IF walk = <<>> THEN <<>>
    ELSE IF walk[1].skip THEN Built(Tail(walk))
    ELSE <<walk[1]>> \o Built(Tail(walk))

\* the sum of the segments of built projected on the vector v
RECURSIVE AlongSum(_, _)
AlongSum(built, v) ==
    IF built = <<>> THEN 0
    ELSE cdot(VSub(built[1].seg.pos.b, built[1].seg.pos.a), v) + AlongSum(Tail(built), v)

\* the laser moves along a straight line, always forward
StraightForward(l) == l.rule.tag = "linear" /\ l.rule.velocity # <<0, 0>>

\* C25: before canonicalization and culling, the segments that
\* construct_segments builds form one connected chain: the first starts at
\* the first sample's position, each next one starts where the one before
\* ends, the last ends at the last sample's position.  For a straight laser
\* that moves forward every segment points along the velocity, so the lengths
\* add up to the distance between first and last sample; with nothing culled
\* the segments stored are these, flipped or not.
C25_ConnectedChain ==
    Walked =>
        LET built == Built(sm.walk)
            m == Len(built)
            n == Len(sm.samples)
            v == sm.before.rule.velocity
        IN  /\ m >= 1
            /\ built[1].seg.pos.a = sm.samples[1].p
            /\ built[m].seg.pos.b = sm.samples[n].p
            /\ \A i \in 1..(m - 1) : built[i].seg.pos.b = built[i + 1].seg.pos.a
            /\ StraightForward(sm.before) =>
                  /\ \A i \in 1..m :
                        /\ ccross(VSub(built[i].seg.pos.b, built[i].seg.pos.a), v) = 0
                        /\ cdot(VSub(built[i].seg.pos.b, built[i].seg.pos.a), v) > 0
                  /\ AlongSum(built, v) = cdot(VSub(sm.samples[n].p, sm.samples[1].p), v)
                  /\ (\A i \in 1..m : built[i].visible) =>
                        /\ lasers[1].num_segments = m
                        /\ \A i \in 1..m : Unflipped(segments[i]) = built[i].seg

\* a straight laser with a sample skipped, three segments or more, none
\* culled and one of them stored flipped
C25_Witness ==
    /\ Walked
    /\ StraightForward(sm.before)
    /\ \E i \in 1..Len(sm.walk) : sm.walk[i].skip
    /\ lasers[1].num_segments >= 3
    /\ lasers[1].num_segments = Len(Built(sm.walk))
    /\ \E i \in 1..Len(segments) : Unflipped(segments[i]) # segments[i]

\* the first sample and the endpoints of the segments stored for the laser
BoxPoints ==
    {sm.samples[1].p}
        \cup {segments[i + 1].pos.a : i \in laser_segment_indices(lasers[1])}
        \cup {segments[i + 1].pos.b : i \in laser_segment_indices(lasers[1])}

\* the rectangle r holds the point p with a margin of mg px or more on every side
HoldsWithMargin(r, p, mg) ==
    /\ RLe(RAdd(r.top_left[1], mg), PosR(p[1]))
    /\ RLe(RAdd(r.top_left[2], mg), PosR(p[2]))
    /\ RLe(RAdd(PosR(p[1]), mg), r.bottom_right[1])
    /\ RLe(RAdd(PosR(p[2]), mg), r.bottom_right[2])

\* on each of its four sides the rectangle r is exactly mg px from the
\* outermost of the points ps
TightAround(r, ps, mg) ==
    /\ \E p \in ps : RAdd(r.top_left[1], mg) = PosR(p[1])
    /\ \E p \in ps : RAdd(r.top_left[2], mg) = PosR(p[2])
    /\ \E p \in ps : RAdd(PosR(p[1]), mg) = r.bottom_right[1]
    /\ \E p \in ps : RAdd(PosR(p[2]), mg) = r.bottom_right[2]

\* C26: after quantize_laser on a laser with a valid window the bounding box
\* holds the first sample and both endpoints of every segment stored for the
\* laser, each with a margin of LASER_SDF_RANGE + width / 2 or more on all
\* four sides; culled segments do not enlarge the box: each side of it is
\* exactly the margin away from one of these points.
C26_BoxHoldsStored ==
    (sm.phase = "sampled" /\ sm.sp.ok) =>
        LET mg == RAdd(RI(LASER_SDF_RANGE), RMul(sm.before.width, RQ(1, 2)))
        IN  /\ \A p \in BoxPoints : HoldsWithMargin(lasers[1].bbox, p, mg)
            /\ TightAround(lasers[1].bbox, BoxPoints, mg)

\* a laser with segments stored and segments culled, the culled ones reaching
\* farther left than the box
C26_Witness ==
    /\ Walked
    /\ lasers[1].num_segments >= 2
    /\ \E i \in 1..Len(sm.walk) :
          /\ ~sm.walk[i].skip
          /\ ~sm.walk[i].visible
          /\ RLt(PosR(sm.walk[i].seg.pos.b[1]), lasers[1].bbox.top_left[1])

\* the time of the k-th point fill_samples evaluates, k = 0 the first
SampledTime(k) ==
    Min(sm.sp.time_shift + k * sm.sp.time_step,
        sm.sp.time_shift + TimeScale * sm.before.timespan)

\* the points k >= 1 of the window at which the curve is not where it was at
\* point k - 1
MovedPoints ==
    {k \in 1..(sm.sp.num_samples - 1) :
        laser_pos_at(sm.before, SampledTime(k)) # laser_pos_at(sm.before, SampledTime(k - 1))}

\* C27: after fill_samples no two consecutive retained samples have the same
\* position; a sample is retained only where the curve moved since the last
\* retained one, so a motionless laser yields exactly one sample.
C27_NoRepeatedSample ==
    (sm.phase = "sampled" /\ sm.sp.ok) =>
        /\ \A i \in 1..(Len(sm.samples) - 1) : sm.samples[i].p # sm.samples[i + 1].p
        /\ Len(sm.samples) = 1 + Cardinality(MovedPoints)
        /\ (MovedPoints = {}) => Len(sm.samples) = 1

\* a motionless laser sampled at several times, and one sample kept
C27_Witness ==
    /\ sm.phase = "sampled"
    /\ sm.sp.ok
    /\ sm.sp.num_samples >= 3
    /\ MovedPoints = {}
    /\ Len(sm.samples) = 1
    /\ lasers[1].num_segments = 1

\* C28: in construct_segments, on samples of which consecutive ones differ in
\* position, the vector from the last included point to the current sample is
\* never zero: the assertions norm2 != 0 and the assumptions v0_abs2 != 0 hold
\* at every step, also for a curve that retraces its own path.
C28_NormsNonzero ==
    (Walked /\ \A i \in 1..(Len(sm.samples) - 1) : sm.samples[i].p # sm.samples[i + 1].p)
        => sm.norm_ok

\* the assertions and assumptions hold on every walk whose samples are all
\* at different positions
NormsNonzeroOnDistinct ==
    (Walked /\ \A i, j \in 1..Len(sm.samples) : i # j => sm.samples[i].p # sm.samples[j].p)
        => sm.norm_ok

---------------------------------------------------------------------------
(* A cleared laser: the frames after laser_clear_now *)

MaxClearedFrames == 5
MaxClearedTimespan == 3

\* the playback speeds the scripts give a laser; create_laser sets 1 and
\* laser_make_static 0
ClearedSpeeds == {0, 1, 2}

\* a straight laser whose script has set speed and timeshift; sm.first is the
\* frame in which laser_clear_now first ran on it, -1 before, and sm.nsegs the
\* number of segments the last laser_clear_now call traced
InitCleared ==
    /\ frames = 0
    /\ \E time \in 1..MaxClearedTimespan, deathtime \in {2, MaxClearedFrames},
          speed \in ClearedSpeeds, timeshift \in 0..MaxClearedTimespan :
          /\ timeshift <= time
          /\ lasers = <<[quant_laser(time, deathtime, <<0, 20>>, 10)
                           EXCEPT !.speed = speed, !.timeshift = timeshift]>>
    /\ segments = <<>>
    /\ pc = "idle"
    /\ sm = [phase |-> "none", first |-> -1, nsegs |-> 0]
    /\ cur = 0
    /\ stage_cleared = FALSE
    /\ plr = NoPlayer
    /\ ev = NoEvent
    /\ resets = 0
    /\ nextid = 2
    /\ tr = NoTrace
    /\ ch = NoCharge
    /\ rl = NoRule
    /\ co = NoColl
    /\ ws = NoWidth
    /\ uc = NoCapsule

\* a script calls clear_laser on the laser between two frames
ClearedCall ==
    /\ pc = "idle"
    /\ lasers # <<>>
    /\ ~pass2_clears(lasers[1])
    /\ \E flags \in {{CLEAR_HAZARDS_LASERS}, {CLEAR_HAZARDS_LASERS, CLEAR_HAZARDS_FORCE}} :
          lasers' = <<clear_laser(lasers[1], flags).laser>>
    /\ UNCHANGED <<frames, segments, pc, cur, stage_cleared, plr, ev, resets, nextid,
                   tr, ch, rl, co, ws, uc, sm>>

\* the second loop of process_lasers on the laser l just quantized
cleared_pass2(l, segs) ==
    IF pass2_clears(l)
    THEN [l |-> [l EXCEPT !.deathtime = 0],
          sm |-> [phase |-> "clear_now",
                  first |-> IF sm.first = -1 THEN frames ELSE sm.first,
                  nsegs |-> l.num_segments]]
    ELSE [l |-> laser_collision(l, plr, segs).l @@ [task |-> l.task],
          sm |-> [sm EXCEPT !.phase = "collision"]]

\* process_lasers on the one laser: the segment buffer is emptied, the laser
\* deleted if expired and quantized otherwise; then the second loop runs
\* laser_clear_now and zeroes deathtime, or tests for a collision
ClearedProcess ==
    /\ pc = "idle"
    /\ lasers # <<>>
    /\ IF laser_expired(lasers[1])
       THEN /\ lasers' = <<>>
            /\ segments' = <<>>
            /\ sm' = [sm EXCEPT !.phase = "gone"]
       ELSE \E q \in {quantize_laser(lasers[1], <<>>)} :
            \E r \in {cleared_pass2(q.l, q.segs)} :
               /\ lasers' = <<r.l>>
               /\ segments' = q.segs
               /\ sm' = r.sm
    /\ pc' = "quantized"
    /\ UNCHANGED <<frames, cur, stage_cleared, plr, ev, resets, nextid,
                   tr, ch, rl, co, ws, uc>>

\* the next frame
ClearedFrame ==
    /\ pc = "quantized"
    /\ frames < MaxClearedFrames
    /\ frames' = frames + 1
    /\ pc' = "idle"
    /\ UNCHANGED <<lasers, segments, cur, stage_cleared, plr, ev, resets, nextid,
                   tr, ch, rl, co, ws, uc, sm>>

NextCleared == ClearedCall \/ ClearedProcess \/ ClearedFrame

SpecCleared == InitCleared /\ [][NextCleared]_vars

\* process_lasers ran on the laser in a frame after the one of its first
\* laser_clear_now call, and did not delete it
ClearedEarlier ==
    /\ pc = "quantized"
    /\ lasers # <<>>
    /\ sm.first # -1
    /\ sm.first < frames

ClearedOnceUnshifted ==
    (ClearedEarlier /\ (lasers[1].timeshift = 0 \/ lasers[1].speed = 0))
        => lasers[1].num_segments = 0

\* a cleared laser without timeshift lives on for a frame, with no segments
ClearedUnshiftedLater ==
    ~(ClearedEarlier /\ lasers[1].timeshift = 0 /\ lasers[1].speed = 1 /\ sm.nsegs = 0)

---------------------------------------------------------------------------
(* The warm-up of laser_charge *)

\* the last laser_charge call of the task was one of the warm-up phase,
\* t < charge - 10, with a target width above 0 and a charge delay above 10
WarmingUp ==
    /\ ch.phase = "charging"
    /\ ch.t > 0
    /\ ch.charge_delay > 10
    /\ RLt(RI(0), ch.target_width)
    /\ ch.t - 1 < ch.charge_delay - 10

\* C30: during the warm-up of laser_charge (0 <= t < charge - 10) the laser is
\* never collision-active and its width never exceeds the target width, for
\* every target width above 0 and every charge delay above 10.
C30_WarmupHarmless ==
    WarmingUp => (~ch.l.collision_active /\ RLe(ch.l.width, ch.target_width))

\* the warm-up width is 2 at most; it stays below 0.6 of every target width
\* of 10/3 or more
WarmupHarmlessWide ==
    WarmingUp =>
        /\ RLe(ch.l.width, RI(2))
        /\ RLe(RQ(10, 3), ch.target_width)
                => (~ch.l.collision_active /\ RLe(ch.l.width, ch.target_width))
====
